---- MODULE Spec2Model ----
(***************************************************************************)
(* A model of crash-mcp: the command store (CommandStore), the session     *)
(* registry (SessionManager), the terminal sessions (BaseSession,          *)
(* CrashSession, DrgnSession), the router (UnifiedSession) and the tool    *)
(* layer (open_vmcore_session, close_vmcore_session, run_crash_command).   *)
(*                                                                         *)
(* Texts (commands, outputs) are sequences of one-character strings, so    *)
(* that strip / split / splitlines / startswith are computed as Python     *)
(* computes them. A Python Optional is a sequence of length 0 (None) or 1. *)
(***************************************************************************)
EXTENDS Integers, Sequences, FiniteSets, TLC

VARIABLES
    store,      \* one CommandStore and its workdir: [commands, index, files, manifest]
    now,        \* the wall clock time.time() reads
    sop,        \* the last CommandStore call and its arguments
    sret,       \* what that call returned (or raised)
    mgr,        \* one SessionManager: [sessions, vmcore_map]
    targets,    \* the vmcore files on disk: path -> None (unreadable) or content
    uuids,      \* how many uuid4() values have been drawn
    mop,        \* the last SessionManager call, its arguments and the registry before it
    mret,       \* what that call returned
    term,       \* one terminal session: [kind, process, buf, history]
    tcall,      \* the last call on it, its arguments and what its wait met
    tret,       \* what that call returned or raised, and the lines it sent
    us,         \* one UnifiedSession
    cache_mode, \* Config.COMMAND_CACHE_MODE
    clock,      \* the wall clock of the unified session's host
    ucall,      \* the last call on the unified session, and what it found
    uret,       \* what that call returned or raised, and the lines it sent
    host,       \* the tool layer's globals and the workdirs: [mgr, sessions, last, disk]
    opens,      \* session_id -> successful opens not yet given back by a close
    req,        \* the last tool call, and what it found
    resp,       \* what the tool answered
    contexts,   \* the contexts of two unified sessions, as their set commands left them
    made,       \* the command ids last made for one command under the two contexts
    closing,    \* where a call of close is, and what kind of process object it closes
    sync        \* where the handshakes of DrgnSession.start are, and what the child wrote

storeVars == <<store, now, sop, sret>>
mgrVars == <<mgr, targets, uuids, mop, mret>>
termVars == <<term, tcall, tret>>
uniVars == <<us, cache_mode, clock, ucall, uret>>
toolVars == <<host, opens, req, resp>>
idVars == <<contexts, made>>
closeVars == <<closing>>
syncVars == <<sync>>

-----------------------------------------------------------------------------
(* Text helpers: Python's str methods on sequences of characters.          *)

None == <<>>
Some(x) == <<x>>

IsSpace(c) == c \in {" ", "\n", "\t"}

RECURSIVE LStrip(_)
LStrip(s) == IF s # <<>> /\ IsSpace(Head(s)) THEN LStrip(Tail(s)) ELSE s

RECURSIVE RStrip(_)
RStrip(s) ==
    IF s # <<>> /\ IsSpace(s[Len(s)]) THEN RStrip(SubSeq(s, 1, Len(s) - 1)) ELSE s

Strip(s) == RStrip(LStrip(s))

\* s[:n]
Take(s, n) == SubSeq(s, 1, IF Len(s) < n THEN Len(s) ELSE n)

\* s[n:]
Drop(s, n) == SubSeq(s, n + 1, Len(s))

StartsWith(s, p) == Len(s) >= Len(p) /\ SubSeq(s, 1, Len(p)) = p

\* the longest prefix of s without white space
RECURSIVE Word(_)
Word(s) ==
    IF s = <<>> \/ IsSpace(Head(s)) THEN <<>> ELSE <<Head(s)>> \o Word(Tail(s))

\* str.split(): the maximal runs of non-space characters
RECURSIVE Split(_)
Split(s) ==
    LET t == LStrip(s)
    IN  IF t = <<>> THEN <<>>
        ELSE <<Word(t)>> \o Split(Drop(t, Len(Word(t))))

\* the longest prefix of s without a line break
RECURSIVE Line(_)
Line(s) ==
    IF s = <<>> \/ Head(s) = "\n" THEN <<>> ELSE <<Head(s)>> \o Line(Tail(s))

\* str.splitlines(): a final line break adds no empty line, "" has no lines
RECURSIVE Splitlines(_)
Splitlines(s) ==
    IF s = <<>> THEN <<>>
    ELSE LET l == Line(s)
         IN  IF Len(l) = Len(s) THEN <<l>>
             ELSE <<l>> \o Splitlines(Drop(s, Len(l) + 1))

\* "\n".join(lines)
RECURSIVE JoinLines(_)
JoinLines(ls) ==
    IF ls = <<>> THEN <<>>
    ELSE IF Len(ls) = 1 THEN ls[1]
    ELSE ls[1] \o <<"\n">> \o JoinLines(Tail(ls))

\* seq[a:b] of Python, 0-based, clipped
Slice(s, a, b) ==
    LET hi == IF b < Len(s) THEN b ELSE Len(s)
    IN  IF a >= hi THEN <<>> ELSE SubSeq(s, a + 1, hi)

\* hashlib.md5(...).hexdigest()[:n]: a digest, taken to be collision free
Md5(s) == <<"md5", s>>

Max(a, b) == IF a > b THEN a ELSE b

-----------------------------------------------------------------------------
(* CommandStore (common/command_store.py). A store is a record             *)
(*   commands: _commands, command_id -> CommandResult                      *)
(*   index:    _index                                                      *)
(*   files:    the output files of the workdir, file name -> text          *)
(*   manifest: manifest.json, None while it does not exist                 *)

\* Config.OUTPUT_TRUNCATE_LINES, read from CRASH_MCP_TRUNCATE_LINES (default
\* 2000); the model runs the configuration CRASH_MCP_TRUNCATE_LINES=1.
OUTPUT_TRUNCATE_LINES == 1

\* Config.COMMAND_SAVE_THRESHOLD_SECONDS (default 2.0)
COMMAND_SAVE_THRESHOLD_SECONDS == 2

\* files one store may create, and saves in one run
MaxIndex == 2
MaxTime == 2

CmdBt == <<"b", "t">>
CmdBtLead == <<" ", "b", "t">>
OutANl == <<"a", "\n">>
OutBC == <<"b", "\n", "c">>
KeyPid == <<"p", "i", "d">>
EmptyCtx == [k \in {} |-> <<>>]
PidCtx == [k \in {KeyPid} |-> <<"1">>]
\* the (engine, command, context) triples the store is called with
SKeys ==
    {<<"crash", CmdBt, EmptyCtx>>, <<"crash", CmdBtLead, EmptyCtx>>,
     <<"drgn", CmdBt, PidCtx>>}
\* the (output, duration, force_save) triples save is called with: a short fast
\* output, a slow one, a forced one, and one longer than OUTPUT_TRUNCATE_LINES
SInputs ==
    {<<OutANl, 0, FALSE>>, <<OutANl, 3, FALSE>>, <<OutANl, 0, TRUE>>,
     <<OutBC, 0, FALSE>>}

\* the keys a context has in the model, as sorted() orders them
SortedKeys == <<<<"c", "o", "n", "t", "e", "x", "t">>, <<"c", "p", "u">>, <<"p", "i", "d">>>>

\* ",".join(f"{k}={v}" for k, v in sorted(context.items())), from the i-th key on
RECURSIVE CtxItems(_, _)
CtxItems(context, i) ==
    IF i > Len(SortedKeys) THEN <<>>
    ELSE IF SortedKeys[i] \notin DOMAIN context THEN CtxItems(context, i + 1)
    ELSE LET rest == CtxItems(context, i + 1)
         IN  SortedKeys[i] \o <<"=">> \o context[SortedKeys[i]]
             \o (IF rest # <<>> THEN <<",">> \o rest ELSE <<>>)

CtxStr(context) == CtxItems(context, 1)

\* _make_id: "engine:cmd_prefix:hash[@context_hash]"
MakeId(engine, command, context) ==
    LET cmd == Strip(command)
        words == Split(cmd)
    IN  [engine |-> engine,
         prefix |-> IF words # <<>> THEN Take(words[1], 10) ELSE <<"c", "m", "d">>,
         hash   |-> Md5(cmd),
         ctx    |-> IF DOMAIN context # {} THEN Some(Md5(CtxStr(context))) ELSE None]

SafeChar(c) ==
    IF c \in {" ", "\n", "\t", ":", "=", "(", ")", ".", "[", "]", "/"} THEN "_" ELSE c

\* _sanitize: re.sub(r'[^a-zA-Z0-9_-]', '_', s)[:20]
Sanitize(s) == Take([i \in 1..Len(s) |-> SafeChar(s[i])], 20)

\* _generate_path, for the value idx the incremented counter has:
\* f"{idx:04d}_{engine}_{sanitized first word}.txt"
GeneratePath(idx, engine, command) ==
    LET words == Split(Strip(command))
    IN  <<idx, engine, Sanitize(IF words # <<>> THEN words[1] ELSE <<"c", "m", "d">>)>>

\* int(output_file.name.split('_')[0])
PathIndex(name) == name[1]

ManifestOfAll(cmds) ==
    [cid \in DOMAIN cmds |->
        [command     |-> cmds[cid].command,
         engine      |-> cmds[cid].engine,
         output_file |-> IF cmds[cid].output_file # None THEN cmds[cid].output_file[1]
                         ELSE <<>>,
         total_lines |-> cmds[cid].total_lines,
         timestamp   |-> cmds[cid].timestamp,
         duration    |-> cmds[cid].duration,
         is_error    |-> cmds[cid].is_error]]

\* _save_manifest: the records of the file-backed results
ManifestOf(cmds) ==
    [cid \in {c \in DOMAIN cmds : cmds[c].output_file # None} |->
        [command     |-> cmds[cid].command,
         engine      |-> cmds[cid].engine,
         output_file |-> cmds[cid].output_file[1],
         total_lines |-> cmds[cid].total_lines,
         timestamp   |-> cmds[cid].timestamp,
         duration    |-> cmds[cid].duration,
         is_error    |-> cmds[cid].is_error]]

RecoveredWithoutFile(m, fs) ==
    IF m = None THEN {}
    ELSE {cid \in DOMAIN m[1] :
            /\ m[1][cid].command # <<>>
            /\ m[1][cid].engine # ""}

\* _load_manifest: the ids recovered from manifest m with the files fs on disk
Recovered(m, fs) ==
    IF m = None THEN {}
    ELSE {cid \in DOMAIN m[1] :
            /\ m[1][cid].output_file \in DOMAIN fs
            /\ m[1][cid].command # <<>>
            /\ m[1][cid].engine # ""}

LoadManifest(m, fs) ==
    [cid \in Recovered(m, fs) |->
        [command        |-> m[1][cid].command,
         engine         |-> m[1][cid].engine,
         output_file    |-> Some(m[1][cid].output_file),
         output_content |-> None,
         total_lines    |-> m[1][cid].total_lines,
         timestamp      |-> m[1][cid].timestamp,
         duration       |-> m[1][cid].duration,
         cached         |-> FALSE,
         is_error       |-> m[1][cid].is_error]]

RECURSIVE MaxPathIndex(_, _)
MaxPathIndex(m, ids) ==
    IF ids = {} THEN 0
    ELSE LET c == CHOOSE x \in ids : TRUE
         IN  Max(PathIndex(m[1][c].output_file), MaxPathIndex(m, ids \ {c}))

NewStoreCounterAtZero(fs, m) ==
    [commands |-> LoadManifest(m, fs),
     index    |-> 0,
     files    |-> fs,
     manifest |-> m]

\* CommandStore.__init__ on a workdir holding files fs and manifest m
NewStore(fs, m) ==
    [commands |-> LoadManifest(m, fs),
     index    |-> MaxPathIndex(m, Recovered(m, fs)),
     files    |-> fs,
     manifest |-> m]

NoFiles == [f \in {} |-> <<>>]

UpdatedEntryKeepsErrorFlag(old, target, output, should_save, is_error, duration, wfail, fs, t) ==
    [old EXCEPT
        !.output_file =
            IF should_save THEN (IF wfail THEN None ELSE Some(target))
            ELSE IF old.output_file # None /\ old.output_file[1] \in DOMAIN fs
                 THEN old.output_file
                 ELSE None,
        !.output_content =
            IF should_save THEN (IF wfail THEN Some(output) ELSE None)
            ELSE Some(output),
        !.total_lines = Len(Splitlines(output)),
        !.timestamp = t,
        !.duration = duration,
        !.cached = FALSE]

\* save, when command_id is already in _commands: the entry as updated in place.
\* target is the file the output goes to; wfail: write_text raises IOError.
UpdatedEntry(old, target, output, should_save, is_error, duration, wfail, fs, t) ==
    [old EXCEPT
        !.output_file =
            IF should_save THEN (IF wfail THEN None ELSE Some(target))
            ELSE IF old.output_file # None /\ old.output_file[1] \in DOMAIN fs
                 THEN old.output_file
                 ELSE None,
        !.output_content =
            IF should_save THEN (IF wfail THEN Some(output) ELSE None)
            ELSE Some(output),
        !.total_lines = Len(Splitlines(output)),
        !.timestamp = t,
        !.duration = duration,
        !.cached = FALSE,
        !.is_error = is_error]

\* save, for a command_id not yet in _commands
NewEntry(engine, command, target, output, should_save, is_error, duration, wfail, t) ==
    [command        |-> command,
     engine         |-> engine,
     output_file    |-> IF should_save /\ ~wfail THEN Some(target) ELSE None,
     output_content |-> IF should_save /\ ~wfail THEN None ELSE Some(output),
     total_lines    |-> Len(Splitlines(output)),
     timestamp      |-> t,
     duration       |-> duration,
     cached         |-> FALSE,
     is_error       |-> is_error]

ShouldSave(output, duration, force_save) ==
    \/ force_save
    \/ Len(Splitlines(output)) > OUTPUT_TRUNCATE_LINES
    \/ duration > COMMAND_SAVE_THRESHOLD_SECONDS

\* save generates a new path: the output is to be persisted and the id has no file
NeedsPath(st, engine, command, output, context, duration, force_save) ==
    LET cid == MakeId(engine, command, context)
    IN  /\ ShouldSave(output, duration, force_save)
        /\ cid \notin DOMAIN st.commands \/ st.commands[cid].output_file = None

\* CommandStore.save at time t: the store afterwards; the result returned is
\* commands[command_id]. wfail: the output file cannot be written (IOError).
Save(st, engine, command, output, context, is_error, duration, force_save, wfail, t) ==
    LET cid == MakeId(engine, command, context)
        should_save == ShouldSave(output, duration, force_save)
        known == cid \in DOMAIN st.commands
        needPath == NeedsPath(st, engine, command, output, context, duration, force_save)
        target == IF needPath THEN GeneratePath(st.index + 1, engine, command)
                  ELSE IF known /\ st.commands[cid].output_file # None
                       THEN st.commands[cid].output_file[1]
                       ELSE <<>>
        entry == IF known
                 THEN UpdatedEntry(st.commands[cid], target, output, should_save,
                                   is_error, duration, wfail, st.files, t)
                 ELSE NewEntry(engine, command, target, output, should_save,
                               is_error, duration, wfail, t)
        cmds == (cid :> entry) @@ st.commands
    IN  [commands |-> cmds,
         index    |-> IF needPath THEN st.index + 1 ELSE st.index,
         files    |-> IF should_save /\ ~wfail
                      THEN (target :> output) @@ st.files
                      ELSE st.files,
         manifest |-> IF entry.output_file # None
                      THEN Some(ManifestOf(cmds))
                      ELSE st.manifest]

CachedLookupAny(cmds, engine, command, context) ==
    LET cid == MakeId(engine, command, context)
    IN  IF cid \in DOMAIN cmds THEN Some(cid) ELSE None

\* what get_cached finds: the id of the stored result, unless it is error-flagged
CachedLookup(cmds, engine, command, context) ==
    LET cid == MakeId(engine, command, context)
    IN  IF cid \in DOMAIN cmds /\ ~cmds[cid].is_error THEN Some(cid) ELSE None

\* CommandStore.get_cached: the store afterwards (a hit is flagged cached)
GetCached(st, engine, command, context) ==
    LET hit == CachedLookup(st.commands, engine, command, context)
    IN  IF hit # None
        THEN [st EXCEPT !.commands[hit[1]].cached = TRUE]
        ELSE st

\* the lines get_lines and search read: the file if it exists, else the content
StoredLines(st, cid) ==
    IF st.commands[cid].output_file # None
       /\ st.commands[cid].output_file[1] \in DOMAIN st.files
    THEN Some(Splitlines(st.files[st.commands[cid].output_file[1]]))
    ELSE IF st.commands[cid].output_content # None
    THEN Some(Splitlines(st.commands[cid].output_content[1]))
    ELSE None

Returned(v) == [exc |-> "", val |-> v]
Raised(e) == [exc |-> e, val |-> None]

GetLinesHasMoreAtEnd(st, cid, offset, limit) ==
    IF cid \notin DOMAIN st.commands THEN Raised("ValueError")
    ELSE LET ls == StoredLines(st, cid)
         IN  IF ls = None THEN Raised("ValueError")
             ELSE LET selected == Slice(ls[1], offset, offset + limit)
                  IN  Returned(<<JoinLines(selected), Len(selected), Len(ls[1]),
                                 offset + limit <= Len(ls[1])>>)

\* get_lines: (text, returned_count, total_lines, has_more), or ValueError
GetLines(st, cid, offset, limit) ==
    IF cid \notin DOMAIN st.commands THEN Raised("ValueError")
    ELSE LET ls == StoredLines(st, cid)
         IN  IF ls = None THEN Raised("ValueError")
             ELSE LET selected == Slice(ls[1], offset, offset + limit)
                  IN  Returned(<<JoinLines(selected), Len(selected), Len(ls[1]),
                                 offset + limit < Len(ls[1])>>)

\* limit = 20 in search
SearchLimit == 20

\* re.IGNORECASE on the letters of the model
Fold(c) == CASE c = "A" -> "a" [] c = "B" -> "b" [] OTHER -> c

ValidPatternAny(q) == TRUE

\* re.compile(query): the patterns of the model are made of literal
\* characters and ".", and an unclosed "(" is a re.error
ValidPattern(q) == \A j \in 1..Len(q) : q[j] # "("

\* pattern.search(line)
Matches(line, q) ==
    \E i \in 1..(Len(line) - Len(q) + 1) :
        \A j \in 1..Len(q) : q[j] = "." \/ Fold(q[j]) = Fold(line[i + j - 1])

\* the entry for the match on lines[i], i counted from 0
Match(lines, i, context_lines) ==
    [line_number    |-> i + 1,
     context_before |-> Slice(lines, Max(0, i - context_lines), i),
     line           |-> lines[i + 1],
     context_after  |-> Slice(lines, i + 1, i + 1 + context_lines)]

\* the entry appended when the limit is reached
WarningMatch ==
    [line_number    |-> -1,
     context_before |-> <<>>,
     line           |-> <<"[SYSTEM WARNING] Search result truncated.">>,
     context_after  |-> <<>>]

RECURSIVE SearchFromUnlimited(_, _, _, _, _)
SearchFromUnlimited(lines, q, context_lines, i, n) ==
    IF i >= Len(lines) THEN <<>>
    ELSE IF ~Matches(lines[i + 1], q)
    THEN SearchFromUnlimited(lines, q, context_lines, i + 1, n)
    ELSE <<Match(lines, i, context_lines)>>
         \o SearchFromUnlimited(lines, q, context_lines, i + 1, n + 1)

\* the loop of search from line i (counted from 0) with n matches collected
RECURSIVE SearchFrom(_, _, _, _, _)
SearchFrom(lines, q, context_lines, i, n) ==
    IF i >= Len(lines) THEN <<>>
    ELSE IF ~Matches(lines[i + 1], q)
    THEN SearchFrom(lines, q, context_lines, i + 1, n)
    ELSE IF n + 1 >= SearchLimit
    THEN <<Match(lines, i, context_lines), WarningMatch>>
    ELSE <<Match(lines, i, context_lines)>>
         \o SearchFrom(lines, q, context_lines, i + 1, n + 1)

\* search: the list of matches, or ValueError
Search(st, cid, query, context_lines) ==
    IF cid \notin DOMAIN st.commands THEN Raised("ValueError")
    ELSE LET ls == StoredLines(st, cid)
         IN  IF ls = None THEN Raised("ValueError")
             ELSE IF ~ValidPattern(query) THEN Raised("ValueError")
             ELSE Returned(SearchFrom(ls[1], query, context_lines, 0, 0))

SIds == {MakeId(k[1], k[2], k[3]) : k \in SKeys}

\* offsets and limits get_lines is called with
MaxOffset == 2

NoArgs ==
    [name |-> "", engine |-> "", command |-> <<>>, context |-> EmptyCtx,
     output |-> <<>>, is_error |-> FALSE, cid |-> None,
     duration |-> 0, force_save |-> FALSE, wfail |-> FALSE,
     offset |-> 0, limit |-> 0, query |-> <<>>, context_lines |-> 0]

-----------------------------------------------------------------------------
(* SessionManager (common/session_manager.py). A manager is a record       *)
(*   sessions:   _sessions, session_id -> SessionInfo                      *)
(*   vmcore_map: _vmcore_map, vmcore_md5 -> session_id                     *)

\* sessions one manager may create, and the range of a reference count
MaxSessions == 2
MaxRef == 1

Paths == {"/a", "/b"}

\* a vmcore's bytes: the first 64MB (head) and what follows (tail)
Contents ==
    {[head |-> "x", tail |-> "1"], [head |-> "x", tail |-> "2"],
     [head |-> "y", tail |-> "1"]}

\* _compute_md5: the digest of the first 64MB, or of the path if unreadable
ComputeMd5(fs, path) ==
    IF fs[path] # None THEN Md5(fs[path][1].head) ELSE Md5(path)

\* SessionManager.CONTEXT_KEYS
KeyCpu == <<"c", "p", "u">>
KeyContext == <<"c", "o", "n", "t", "e", "x", "t">>
CONTEXT_KEYS == {KeyPid, KeyCpu, KeyContext}

NewManager == [sessions |-> [s \in {} |-> <<>>], vmcore_map |-> [f \in {} |-> 0]]

GetOrCreateNoMap(m, fs, vmcore_path, vmlinux_path, uuid) ==
    [m EXCEPT !.sessions = (uuid :> [session_id |-> uuid,
                             vmcore_md5 |-> ComputeMd5(fs, vmcore_path),
                             vmcore_path |-> vmcore_path,
                             vmlinux_path |-> vmlinux_path,
                             workdir |-> <<"workdir", ComputeMd5(fs, vmcore_path)>>,
                             context |-> EmptyCtx,
                             ref_count |-> 0]) @@ m.sessions]

\* get_or_create: the manager afterwards; uuid is the value uuid4() gives
GetOrCreate(m, fs, vmcore_path, vmlinux_path, uuid) ==
    LET vmcore_md5 == ComputeMd5(fs, vmcore_path)
    IN  IF vmcore_md5 \in DOMAIN m.vmcore_map THEN m
        ELSE [sessions |->
                (uuid :> [session_id   |-> uuid,
                          vmcore_md5   |-> vmcore_md5,
                          vmcore_path  |-> vmcore_path,
                          vmlinux_path |-> vmlinux_path,
                          workdir      |-> <<"workdir", vmcore_md5>>,
                          context      |-> EmptyCtx,
                          ref_count    |-> 0]) @@ m.sessions,
              vmcore_map |-> (vmcore_md5 :> uuid) @@ m.vmcore_map]

\* get_or_create: (session_id, is_new)
GetOrCreateResult(m, fs, vmcore_path, uuid) ==
    LET vmcore_md5 == ComputeMd5(fs, vmcore_path)
    IN  IF vmcore_md5 \in DOMAIN m.vmcore_map
        THEN [sid |-> m.vmcore_map[vmcore_md5], is_new |-> FALSE]
        ELSE [sid |-> uuid, is_new |-> TRUE]

AcquireWithoutCount(m, sid) == m

\* acquire
Acquire(m, sid) ==
    IF sid \in DOMAIN m.sessions
    THEN [m EXCEPT !.sessions[sid].ref_count = @ + 1]
    ELSE m

\* release: the manager afterwards
Release(m, sid) ==
    IF sid \notin DOMAIN m.sessions THEN m
    ELSE [m EXCEPT !.sessions[sid].ref_count = @ - 1]

ReleaseResultStale(m, sid) ==
    IF sid \notin DOMAIN m.sessions THEN -1
    ELSE m.sessions[sid].ref_count

\* release: the count returned, -1 if the id is not registered
ReleaseResult(m, sid) ==
    IF sid \notin DOMAIN m.sessions THEN -1
    ELSE m.sessions[sid].ref_count - 1

\* update_context
UpdateContext(m, sid, key, value) ==
    IF sid \in DOMAIN m.sessions
    THEN [m EXCEPT !.sessions[sid].context = (key :> value) @@ @]
    ELSE m

\* parse_and_update_context
ParseAndUpdateContext(m, sid, engine, command) ==
    LET parts == Split(Strip(command))
    IN  IF engine # "crash" THEN m
        ELSE IF Len(parts) >= 3 /\ parts[1] = <<"s", "e", "t">> /\ parts[2] \in CONTEXT_KEYS
        THEN UpdateContext(m, sid, parts[2], parts[3])
        ELSE m

\* remove_session
RemoveSession(m, sid) ==
    IF sid \in DOMAIN m.sessions
    THEN [sessions |-> [s \in DOMAIN m.sessions \ {sid} |-> m.sessions[s]],
          vmcore_map |-> [f \in DOMAIN m.vmcore_map \ {m.sessions[sid].vmcore_md5}
                            |-> m.vmcore_map[f]]]
    ELSE m

CmdSetPid == <<"s", "e", "t", " ", "p", "i", "d", " ", "1">>
MCommands == {CmdSetPid, CmdBt}

NoReturn == [sid |-> 0, is_new |-> FALSE, count |-> 0, ok |-> FALSE]

NoCall == [name |-> "", sid |-> 0, path |-> "", before |-> NewManager]
-----------------------------------------------------------------------------
(* Terminal sessions (common/base_session.py, crash/session.py,            *)
(* drgn/session.py). A session is a record                                 *)
(*   kind:    "crash" (CrashSession) or "drgn" (DrgnSession)               *)
(*   process: _process and its child: "none" (_process is None),           *)
(*            "running", "closed" (the child's output stream is at end of  *)
(*            file, the process has not exited yet) or "exited"            *)
(*   buf:     what the child wrote and no expect() has consumed            *)
(*   history: len(self.history)                                            *)
(* In a text the token "PROMPT" stands for a match of the session's PROMPT *)
(* pattern, "ESC" for \x1b and "BEL" for \x07.                             *)

\* unread characters one session may hold, and entries of one history
MaxBuf == 6
MaxHistory == 3

\* execute_command(timeout=60)
DEFAULT_TIMEOUT == 60

Prompt == "PROMPT"

Letters ==
    {"a", "b", "c", "d", "e", "f", "g", "h", "i", "j", "k", "l", "m", "n",
     "o", "p", "q", "r", "s", "t", "u", "v", "w", "x", "y", "z", "A", "B",
     "C", "D", "E", "F", "G", "H", "I", "J", "K", "L", "M", "N", "O", "P",
     "Q", "R", "S", "T", "U", "V", "W", "X", "Y", "Z"}
CsiParams == {"0", "1", "2", "3", "4", "5", "6", "7", "8", "9", ";", "?"}

\* sub in s
Contains(s, sub) ==
    \E i \in 0..(Len(s) - Len(sub)) : SubSeq(s, i + 1, i + Len(sub)) = sub

\* the index where \x1b\[[0-9;?]*[a-zA-Z] ends if its parameters start at i, else 0
RECURSIVE CsiEnd(_, _)
CsiEnd(s, i) ==
    IF i > Len(s) THEN 0
    ELSE IF s[i] \in CsiParams THEN CsiEnd(s, i + 1)
    ELSE IF s[i] \in Letters THEN i
    ELSE 0

\* the index where \x1b\].*?\x07 ends if its text starts at i, else 0
RECURSIVE OscEnd(_, _)
OscEnd(s, i) ==
    IF i > Len(s) \/ s[i] = "\n" THEN 0
    ELSE IF s[i] = "BEL" THEN i
    ELSE OscEnd(s, i + 1)

\* re.compile(r'\x1b\[[0-9;?]*[a-zA-Z]').sub('', s)
RECURSIVE StripCsi(_)
StripCsi(s) ==
    IF s = <<>> THEN s
    ELSE LET e == IF Head(s) = "ESC" /\ Len(s) >= 2 /\ s[2] = "[" THEN CsiEnd(s, 3) ELSE 0
         IN  IF e > 0 THEN StripCsi(Drop(s, e))
             ELSE <<Head(s)>> \o StripCsi(Tail(s))

\* ANSI_ESCAPE_PATTERN.sub('', s)
RECURSIVE StripAnsi(_)
StripAnsi(s) ==
    IF s = <<>> THEN s
    ELSE LET e == IF Head(s) = "ESC" /\ Len(s) >= 2
                  THEN IF s[2] = "[" THEN CsiEnd(s, 3)
                       ELSE IF s[2] = "]" THEN OscEnd(s, 3)
                       ELSE 0
                  ELSE 0
         IN  IF e > 0 THEN StripAnsi(Drop(s, e))
             ELSE <<Head(s)>> \o StripAnsi(Tail(s))

\* expect(PROMPT) on the unread text: whether it matches, self.before, and
\* what stays unread
HasPrompt(buf) == \E i \in 1..Len(buf) : buf[i] = Prompt
FirstPrompt(buf) ==
    CHOOSE i \in 1..Len(buf) : buf[i] = Prompt /\ \A j \in 1..(i - 1) : buf[j] # Prompt
Before(buf) == SubSeq(buf, 1, FirstPrompt(buf) - 1)
After(buf) == Drop(buf, FirstPrompt(buf))

\* the drain loop: expect(PROMPT, timeout=0.1) until it times out
RECURSIVE Drained(_)
Drained(buf) == IF HasPrompt(buf) THEN Drained(After(buf)) ELSE buf

NewSession(kind) == [kind |-> kind, process |-> "none", buf |-> <<>>, history |-> 0]

\* is_active: _process is set and the child has not exited
IsActive(t) == t.process \in {"running", "closed"}

QuitTokens == {<<"q">>, <<"q", "u", "i", "t">>, <<"e", "x", "i", "t">>}
QuitLine == <<"quit">>

\* what a call gives back: the session afterwards, the exception raised ("" if
\* none), the value returned or the exception's message, the lines sent to the
\* child, and what the wait for the prompt met
Outcome(t, exc, val, wire, saw) ==
    [t |-> t, exc |-> exc, val |-> val, wire |-> wire, saw |-> saw]

CloseSessionKeepsChild(t) ==
    IF IsActive(t) THEN [t EXCEPT !.buf = <<>>] ELSE t

\* close
CloseSession(t) ==
    IF IsActive(t) THEN [t EXCEPT !.process = "none", !.buf = <<>>] ELSE t

CloseWire(t) == IF IsActive(t) THEN <<QuitLine>> ELSE <<>>

\* what the pseudo-terminal echoes of a line sent
Echo(command) == command \o <<"\n">>

\* the ways a running child answers a line: with a.body and a prompt in time
\* ("prompt"), with them but after the wait gave up ("late"), with nothing
\* ("hang"), or by ending its stream ("eof")
Answers(bodies) ==
    {[then |-> "prompt", body |-> b] : b \in bodies}
    \cup {[then |-> "late", body |-> OutANl], [then |-> "hang", body |-> <<>>],
          [then |-> "eof", body |-> <<>>]}

\* what the child writes before the wait ends, and after it
Reply(command, a) ==
    Echo(command) \o (IF a.then = "prompt" THEN a.body \o <<Prompt>> ELSE <<>>)
Late(a) == IF a.then = "late" THEN a.body \o <<Prompt>> ELSE <<>>

\* BaseSession.execute_command: the cleaning of the text before the prompt
CleanOutput(raw, command) ==
    LET lines == Splitlines(raw)
        kept == IF lines # <<>> /\ Contains(lines[1], Strip(command))
                THEN Tail(lines) ELSE lines
    IN  StripAnsi(Strip(JoinLines(kept)))

\* BaseSession.execute_command(command, timeout, truncate=False), as
\* CrashSession inherits it, when the child answers the way a says
BaseExecuteCommand(t, command, a) ==
    IF ~IsActive(t)
    THEN Outcome(t, "RuntimeError", <<"Session is not active">>, <<>>, "")
    ELSE IF Strip(command) \in QuitTokens
    THEN Outcome(CloseSession(t), "", <<"Session closed">>, CloseWire(t), "")
    ELSE IF t.process = "closed"
    THEN Outcome([t EXCEPT !.buf = <<>>], "RuntimeError",
                 <<"Session unexpectedly closed">>, <<>>, "eof")
    ELSE LET buf == Drained(t.buf) \o Reply(command, a)
         IN  IF HasPrompt(buf)
             THEN Outcome([t EXCEPT !.buf = After(buf) \o Late(a), !.history = @ + 1],
                          "", CleanOutput(Before(buf), command), <<command>>, "prompt")
             ELSE IF a.then = "eof"
             THEN Outcome([t EXCEPT !.process = "closed", !.buf = <<>>], "RuntimeError",
                          <<"Session closed unexpectedly">>, <<command>>, "eof")
             ELSE Outcome([t EXCEPT !.buf = buf \o Late(a), !.history = @ + 1],
                          "", CleanOutput(buf, command), <<command>>, "timeout")

\* DrgnSession.execute_command: the lines of the output left once the echo of
\* the input lines is taken off its beginning
RECURSIVE Unechoed(_, _, _)
Unechoed(output_lines, input_lines, input_idx) ==
    IF output_lines = <<>> THEN <<>>
    ELSE IF input_idx >= Len(input_lines)
    THEN IF Strip(Head(output_lines)) = <<>>
         THEN Unechoed(Tail(output_lines), input_lines, input_idx)
         ELSE output_lines
    ELSE LET target == Strip(input_lines[input_idx + 1])
             line == Strip(Head(output_lines))
             bare == IF StartsWith(line, <<">", ">", ">", " ">>) THEN Drop(line, 4)
                     ELSE IF StartsWith(line, <<".", ".", ".", " ">>) THEN Drop(line, 4)
                     ELSE line
             current == StripCsi(bare)
         IN  IF current = target
             THEN Unechoed(Tail(output_lines), input_lines, input_idx + 1)
             ELSE IF current \in {<<".", ".", ".">>, <<">", ">", ">">>}
             THEN Unechoed(Tail(output_lines), input_lines, input_idx)
             ELSE output_lines

DrgnCleanOutput(raw, command) ==
    Strip(JoinLines(Unechoed(Splitlines(raw), Splitlines(Strip(command)), 0)))

\* the script files of the model: one, of two lines
ScriptPath == <<"s", ".", "p", "y">>
ScriptFiles == (ScriptPath :> <<"x", "\n", "y">>)

EndsWith(s, suffix) ==
    Len(s) >= Len(suffix) /\ SubSeq(s, Len(s) - Len(suffix) + 1, Len(s)) = suffix

\* base64.b64encode(script).decode(): a text without line breaks that tells
\* the scripts apart
B64Encode(script) ==
    [i \in 1..Len(script) |-> IF script[i] = "\n" THEN "Cg" ELSE script[i]]

\* run_script: the single-line command the script is wrapped in
Wrapper(script) ==
    <<"import base64; exec(base64.b64decode('">> \o B64Encode(script) \o <<"'))">>

\* DrgnSession.execute_command from sendline(command) on: the command is
\* sent as it was given, then the wait for the prompt and the cleaning
DrgnSendLine(t, command, a) ==
    LET buf == IF t.process = "running" THEN t.buf \o Reply(command, a) ELSE t.buf
    IN  IF HasPrompt(buf)
        THEN Outcome([t EXCEPT !.buf = After(buf) \o
                                  (IF t.process = "running" THEN Late(a) ELSE <<>>)],
                     "", DrgnCleanOutput(Before(buf), command), <<command>>, "prompt")
        ELSE IF t.process = "closed" \/ a.then = "eof"
        THEN Outcome([t EXCEPT !.process = "closed", !.buf = <<>>], "pexpect.EOF",
                     <<"End Of File (EOF)">>, <<command>>, "eof")
        ELSE Outcome([t EXCEPT !.buf = buf \o Late(a)], "pexpect.TIMEOUT",
                     <<"Timeout exceeded">>, <<command>>, "timeout")

\* DrgnSession.execute_command(command, timeout, truncate=False)
DrgnExecuteCommand(t, command, a) ==
    LET stripped_cmd == Strip(command)
    IN  IF ~IsActive(t)
        THEN Outcome(t, "RuntimeError", <<"Drgn session is not active">>, <<>>, "")
        ELSE IF EndsWith(stripped_cmd, <<".", "p", "y">>) /\ ~Contains(stripped_cmd, <<"\n">>)
        THEN IF stripped_cmd \in DOMAIN ScriptFiles
             THEN DrgnSendLine(t, Wrapper(ScriptFiles[stripped_cmd]), a)
             ELSE Outcome(t, "", <<"Error: Script not found: ">> \o stripped_cmd, <<>>, "")
        ELSE IF Contains(stripped_cmd, <<"\n">>)
        THEN DrgnSendLine(t, Wrapper(stripped_cmd), a)
        ELSE DrgnSendLine(t, command, a)

ExecuteCommand(t, command, a) ==
    IF t.kind = "crash" THEN BaseExecuteCommand(t, command, a)
    ELSE DrgnExecuteCommand(t, command, a)

\* start(): how the spawn and the wait for the first prompt went
StartOutcomes == {"ok", "no_binary", "no_prompt", "eof"}

StartSession(t, how) ==
    IF how = "no_binary"
    THEN Outcome(t, "RuntimeError", <<"Binary not found">>, <<>>, "")
    ELSE IF how = "ok"
    THEN Outcome([t EXCEPT !.process = "running", !.buf = <<>>], "", <<>>,
                 IF t.kind = "crash"
                 THEN <<<<"set scroll off">>, <<"gdb set debuginfod enabled off">>>>
                 ELSE <<<<"print(12345679 * 9)">>>>,
                 "prompt")
    ELSE Outcome([t EXCEPT !.process = IF how = "eof" THEN "closed" ELSE "running",
                           !.buf = <<>>],
                 IF t.kind = "crash" THEN "NameError" ELSE "RuntimeError",
                 IF t.kind = "crash" THEN <<"name 'pexpect' is not defined">>
                 ELSE <<"Failed to start session: ", how>>,
                 <<>>, IF how = "eof" THEN "eof" ELSE "timeout")

CmdTask == <<"t", "a", "s", "k">>
BodyAnsi == <<"ESC", "[", "0", "m", "a", "\n">>
BodyBC == <<"b", "\n", "c", "\n">>

NoCommand == [name |-> "", command |-> <<>>, active |-> FALSE, output |-> <<>>]
NoResult == [exc |-> "", val |-> <<>>, wire |-> <<>>, saw |-> ""]


\* ---- _smart_truncate ----
\* an output text as runs of equal characters: c the character, n how many
MAX_LEN == 16384
HEAD_LEN == 4096
TAIL_LEN == MAX_LEN - HEAD_LEN

RECURSIVE RunLen(_)
RunLen(output) == IF output = <<>> THEN 0 ELSE output[1].n + RunLen(Tail(output))

\* output[:k]
RECURSIVE Prefix(_, _)
Prefix(output, k) ==
    IF output = <<>> \/ k <= 0 THEN <<>>
    ELSE IF output[1].n <= k THEN <<output[1]>> \o Prefix(Tail(output), k - output[1].n)
    ELSE <<[output[1] EXCEPT !.n = k]>>

RECURSIVE DropRuns(_, _)
DropRuns(output, k) ==
    IF output = <<>> \/ k <= 0 THEN output
    ELSE IF output[1].n <= k THEN DropRuns(Tail(output), k - output[1].n)
    ELSE <<[output[1] EXCEPT !.n = @ - k]>> \o Tail(output)

\* output[-k:] for k > 0
Suffix(output, k) == DropRuns(output, RunLen(output) - k)

\* the number of decimal digits of n
RECURSIVE StrLen(_)
StrLen(n) == IF n < 10 THEN 1 ELSE 1 + StrLen(n \div 10)

\* the marker of the head and tail strategy, 106 characters around the count
TruncationMarker(removed_chars) == [c |-> "truncated", n |-> 106 + StrLen(removed_chars)]
\* the marker of the log strategy, with MAX_LEN written in it
LogMarker == [c |-> "log truncated", n |-> 53 + StrLen(MAX_LEN)]

BaseSmartTruncate(output, command) ==
    IF RunLen(output) <= MAX_LEN THEN Returned(output)
    ELSE Returned(Prefix(output, HEAD_LEN)
                  \o <<TruncationMarker(RunLen(output) - MAX_LEN)>>
                  \o Suffix(output, TAIL_LEN))

\* the first word of a blank command is an index out of range
CrashSmartTruncate(output, command) ==
    IF RunLen(output) <= MAX_LEN THEN Returned(output)
    ELSE IF Split(Strip(command)) = <<>> THEN Raised("IndexError")
    ELSE IF Split(Strip(command))[1] = <<"l", "o", "g">>
    THEN Returned(<<LogMarker>> \o Suffix(output, MAX_LEN))
    ELSE BaseSmartTruncate(output, command)

SmartTruncate(t, output, command) ==
    IF t.kind = "crash" THEN CrashSmartTruncate(output, command)
    ELSE BaseSmartTruncate(output, command)

\* ---- the handshakes of DrgnSession.start ----
DrgnPrompt == <<">", ">", ">", " ">>
magic_val == 12345679
magic_multiplier == 9
InjectToken == <<"I", "N", "J", "E", "C", "T", "_", "D", "O", "N", "E">>

DigitChars == <<"0", "1", "2", "3", "4", "5", "6", "7", "8", "9">>
\* str(n)
RECURSIVE Str(_)
Str(n) == IF n < 10 THEN <<DigitChars[n + 1]>>
          ELSE Str(n \div 10) \o <<DigitChars[(n % 10) + 1]>>

\* _sync: the line sent and the text waited for
SyncLine == <<"p", "r", "i", "n", "t", "(">> \o Str(magic_val) \o <<" ", "*", " ">>
            \o Str(magic_multiplier) \o <<")">>
expected_result == Str(magic_val * magic_multiplier)

\* start: the line that adds tools_path to sys.path and prints the token
InjectLine(safe_path) ==
    <<"i", "m", "p", "o", "r", "t", " ", "s", "y", "s", ";", " ", "s", "y", "s", ".",
      "p", "a", "t", "h", ".", "a", "p", "p", "e", "n", "d", "(", "'">> \o safe_path
    \o <<"'", ")", ";", " ", "p", "r", "i", "n", "t", "(", "'">> \o InjectToken
    \o <<"'", ")">>

\* characters with the place they come from: the echo of the line sent, the
\* output of the code run, or the prompt written after it
From(text, from) == [i \in 1..Len(text) |-> [c |-> text[i], from |-> from]]
TextOf(buf) == [i \in 1..Len(buf) |-> buf[i].c]

\* the index where the first occurrence of pattern in buf starts, 0 if none
RECURSIVE FindFrom(_, _, _)
FindFrom(text, pattern, i) ==
    IF i + Len(pattern) - 1 > Len(text) THEN 0
    ELSE IF SubSeq(text, i, i + Len(pattern) - 1) = pattern THEN i
    ELSE FindFrom(text, pattern, i + 1)
Find(buf, pattern) == FindFrom(TextOf(buf), pattern, 1)

\* a DrgnSession whose first prompt was seen, before the first _sync
NewSync(tools_path, echo) ==
    [pc |-> "idle", tools_path |-> tools_path, echo |-> echo,
     pending |-> <<>>, buf |-> <<>>, met |-> <<>>]

\* sendline(line): the terminal echoes the line if it echoes, the child runs
\* it, writes what it prints and then the prompt
SendLine(s, line, printed, next) ==
    [s EXCEPT !.pc = next,
              !.pending = @ \o (IF s.echo THEN <<From(line \o <<"\n">>, "echo")>> ELSE <<>>)
                            \o <<From(printed \o <<"\n">>, "output"),
                                 From(DrgnPrompt, "prompt")>>]

\* expect(pattern) once the pattern is in the buffer: what is read up to its
\* end is taken off the buffer
Expect(s, pattern, marker, next) ==
    LET i == Find(s.buf, pattern)
    IN  [s EXCEPT !.pc = next,
                  !.buf = SubSeq(@, i + Len(pattern), Len(@)),
                  !.met = Append(@, [marker |-> marker, from |-> s.buf[i].from])]
-----------------------------------------------------------------------------
(* UnifiedSession (common/unified_session.py), built with a workdir. A     *)
(* unified session is a record                                             *)
(*   crash, drgn: crash_session and drgn_session, None or a session        *)
(*   crash_start_error, drgn_start_error: None or the text of the error    *)
(*   context: self.context                                                 *)
(*   store:   command_store and the workdir it writes to                   *)

PrefixDrgn == <<"d", "r", "g", "n", ":">>
PrefixCrash == <<"c", "r", "a", "s", "h", ":">>
PrefixPykdump == <<"p", "y", "k", "d", "u", "m", "p", ":">>
ErrorPrefix == <<"E", "r", "r", "o", "r", ":">>

\* UnifiedSession.CONTEXT_DEPENDENT_COMMANDS
CONTEXT_DEPENDENT_COMMANDS ==
    {<<"b", "t">>, <<"t", "a", "s", "k">>, <<"v", "m">>, <<"v", "t", "o", "p">>, <<"p", "t", "o", "v">>, <<"r", "d">>, <<"w", "r">>}

\* execute_command: crash_cmds
CrashCmds ==
    {<<"s", "y", "s">>, <<"b", "t">>, <<"p", "s">>, <<"l", "o", "g">>, <<"m", "o", "u", "n", "t">>, <<"n", "e", "t">>,
     <<"d", "e", "v">>, <<"f", "i", "l", "e", "s">>, <<"h", "e", "l", "p">>, <<"s", "e", "t">>, <<"e", "x", "t", "e", "n", "d">>}

DrgnNames == {<<"p", "r", "o", "g">>, <<"t", "a", "s", "k">>, <<"t", "h", "r", "e", "a", "d">>}

CmdSet == <<"s", "e", "t">>
SetBody == <<"p", "i", "d", ":", " ", "1", "\n">>

NewUnified(st) ==
    [crash |-> Some(NewSession("crash")), drgn |-> Some(NewSession("drgn")),
     crash_start_error |-> None, drgn_start_error |-> None,
     context |-> EmptyCtx, store |-> st]

\* the longest prefix of s made of digits
RECURSIVE DigitsOf(_)
DigitsOf(s) ==
    IF s # <<>> /\ Head(s) \in {"0", "1", "2", "3", "4", "5", "6", "7", "8", "9"}
    THEN <<Head(s)>> \o DigitsOf(Tail(s)) ELSE <<>>

\* -?\d+ at the start of s, or the empty text
NumberOf(s) ==
    IF s # <<>> /\ Head(s) = "-"
    THEN IF DigitsOf(Tail(s)) # <<>> THEN <<"-">> \o DigitsOf(Tail(s)) ELSE <<>>
    ELSE DigitsOf(s)

\* the group of r'^\s*key:\s*(number)' on one line, or the empty text
FieldOf(line, key, signed) ==
    LET l == LStrip(line)
        rest == LStrip(Drop(l, Len(key) + 1))
    IN  IF StartsWith(l, key \o <<":">>)
        THEN IF signed THEN NumberOf(rest) ELSE DigitsOf(rest)
        ELSE <<>>

\* re.search over the lines: the first match
RECURSIVE FirstField(_, _, _)
FirstField(lines, key, signed) ==
    IF lines = <<>> THEN <<>>
    ELSE IF FieldOf(Head(lines), key, signed) # <<>> THEN FieldOf(Head(lines), key, signed)
    ELSE FirstField(Tail(lines), key, signed)

\* CrashSession.get_default_context, from the output of "set"
DefaultContext(output) ==
    LET pid == FirstField(Splitlines(output), KeyPid, FALSE)
        cpu == FirstField(Splitlines(output), KeyCpu, TRUE)
    IN  [k \in (IF pid # <<>> THEN {KeyPid} ELSE {})
               \cup (IF cpu # <<>> /\ cpu # <<"-", "1">> THEN {KeyCpu} ELSE {})
            |-> IF k = KeyPid THEN pid ELSE cpu]

UOutcome(u, exc, val, wire, saw) ==
    [u |-> u, exc |-> exc, val |-> val, wire |-> wire, saw |-> saw]

\* UnifiedSession.start: hc and hd say how the two engines start, a how the
\* crash child answers the "set" of get_default_context
StartUnified(u, hc, a, hd) ==
    LET c == StartSession(u.crash[1], hc)
        s == BaseExecuteCommand(c.t, CmdSet, a)
        d == StartSession(u.drgn[1], hd)
        after ==
            [u EXCEPT
                !.crash = IF c.exc = "" THEN Some(s.t) ELSE None,
                !.crash_start_error = IF c.exc = "" THEN @ ELSE Some(c.val),
                !.context = IF c.exc = "" /\ s.exc = ""
                            THEN DefaultContext(s.val) @@ @ ELSE @,
                !.drgn = IF d.exc = "" THEN Some(d.t) ELSE None,
                !.drgn_start_error = IF d.exc = "" THEN None ELSE Some(d.val)]
        wire == c.wire \o (IF c.exc = "" THEN s.wire ELSE <<>>) \o d.wire
    IN  IF c.exc # "" /\ d.exc # ""
        THEN UOutcome(after, "RuntimeError", <<"Both engines failed to start.">>, wire, "")
        ELSE UOutcome(after, "", <<>>, wire, "")

\* the message of _exec_crash and _exec_drgn for an engine that is not active
NotActiveError(engine, start_error) ==
    ErrorPrefix \o <<" ", engine, " engine is not active.">>
    \o (IF start_error # None THEN <<" (Reason: ">> \o start_error[1] \o <<")">>
        ELSE <<>>)

\* the message of _exec_pykdump for a crash engine that is not active
NotActiveErrorBare(engine) ==
    ErrorPrefix \o <<" ", engine, " engine is not active.">>

ExecCrash(u, cmd, a) ==
    IF u.crash = None \/ ~IsActive(u.crash[1])
    THEN UOutcome(u, "", NotActiveError("Crash", u.crash_start_error), <<>>, "")
    ELSE LET r == BaseExecuteCommand(u.crash[1], cmd, a)
         IN  UOutcome([u EXCEPT !.crash = Some(r.t)], r.exc, r.val, r.wire, r.saw)

ExecDrgn(u, cmd, a) ==
    IF u.drgn = None \/ ~IsActive(u.drgn[1])
    THEN UOutcome(u, "", NotActiveError("Drgn", u.drgn_start_error), <<>>, "")
    ELSE LET r == DrgnExecuteCommand(u.drgn[1], cmd, a)
         IN  UOutcome([u EXCEPT !.drgn = Some(r.t)], r.exc, r.val, r.wire, r.saw)

\* run_pykdump(code, is_file=False): the line sent names the temporary file
EpythonLine == <<"e", "p", "y", "t", "h", "o", "n", " ", "TMPFILE">>

ExecPykdump(u, code, a) ==
    IF u.crash = None \/ ~IsActive(u.crash[1])
    THEN UOutcome(u, "", NotActiveErrorBare("Crash"), <<>>, "")
    ELSE LET r == BaseExecuteCommand(u.crash[1], EpythonLine, a)
         IN  UOutcome([u EXCEPT !.crash = Some(r.t)], r.exc, r.val, r.wire, r.saw)

IsDrgnPunctuationFirst(cmd) ==
    LET first_word == IF Split(cmd) # <<>> THEN Split(cmd)[1] ELSE <<>>
    IN  IF \E x \in {"=", "(", ".", "["} : Contains(cmd, <<x>>) THEN TRUE
        ELSE IF first_word \in CrashCmds THEN FALSE
        ELSE first_word \in DrgnNames

\* execute_command: the heuristic for a command without a prefix
IsDrgn(cmd) ==
    LET first_word == IF Split(cmd) # <<>> THEN Split(cmd)[1] ELSE <<>>
    IN  IF first_word \in CrashCmds THEN FALSE
        ELSE IF \E x \in {"=", "(", ".", "["} : Contains(cmd, <<x>>) THEN TRUE
        ELSE first_word \in DrgnNames

\* the engine execute_command hands the command to
RouteOf(command) ==
    LET cmd == Strip(command)
    IN  IF StartsWith(cmd, PrefixDrgn) THEN "drgn"
        ELSE IF StartsWith(cmd, PrefixCrash) THEN "crash"
        ELSE IF StartsWith(cmd, PrefixPykdump) THEN "pykdump"
        ELSE IF IsDrgn(cmd) THEN "drgn" ELSE "crash"

\* UnifiedSession.execute_command(command, timeout, truncate=False)
UnifiedExecuteCommand(u, command, a) ==
    LET cmd == Strip(command)
    IN  IF StartsWith(cmd, PrefixDrgn) THEN ExecDrgn(u, Strip(Drop(cmd, 5)), a)
        ELSE IF StartsWith(cmd, PrefixCrash) THEN ExecCrash(u, Strip(Drop(cmd, 6)), a)
        ELSE IF StartsWith(cmd, PrefixPykdump) THEN ExecPykdump(u, Strip(Drop(cmd, 8)), a)
        ELSE IF IsDrgn(cmd) THEN ExecDrgn(u, cmd, a)
        ELSE ExecCrash(u, cmd, a)

\* _parse_command: (engine, actual_command)
ParseCommand(command) ==
    LET cmd == Strip(command)
    IN  IF StartsWith(cmd, PrefixDrgn) THEN <<"drgn", Strip(Drop(cmd, 5))>>
        ELSE IF StartsWith(cmd, PrefixCrash) THEN <<"crash", Strip(Drop(cmd, 6))>>
        ELSE IF StartsWith(cmd, PrefixPykdump) THEN <<"pykdump", Strip(Drop(cmd, 8))>>
        ELSE <<"crash", cmd>>

\* _get_relevant_context
RelevantContext(u, cmd) ==
    LET cmd_word == IF Split(Strip(cmd)) # <<>> THEN Split(Strip(cmd))[1] ELSE <<>>
    IN  IF cmd_word \in CONTEXT_DEPENDENT_COMMANDS THEN u.context ELSE EmptyCtx

MaybeUpdateContextAnyEngine(u, engine, cmd) ==
    LET parts == Split(Strip(cmd))
    IN  IF Len(parts) >= 3 /\ parts[1] = CmdSet /\ parts[2] \in CONTEXT_KEYS
        THEN [u EXCEPT !.context = (parts[2] :> parts[3]) @@ @]
        ELSE u

\* _maybe_update_context
MaybeUpdateContext(u, engine, cmd) ==
    LET parts == Split(Strip(cmd))
    IN  IF engine = "crash" /\ Len(parts) >= 3 /\ parts[1] = CmdSet
           /\ parts[2] \in CONTEXT_KEYS
        THEN [u EXCEPT !.context = (parts[2] :> parts[3]) @@ @]
        ELSE u

\* f"{engine}:{cmd}"
EngineText(engine) ==
    IF engine = "drgn" THEN PrefixDrgn
    ELSE IF engine = "crash" THEN PrefixCrash
    ELSE PrefixPykdump

\* the cache lookup of execute_with_store: whether get_cached is called and
\* whether the entry it returns is taken as the result
LooksUp(force, mode) == ~force /\ mode # "disable"

AcceptsAnyHit(u, engine, cmd, ctx, force, mode) ==
    /\ LooksUp(force, mode)
    /\ CachedLookup(u.store.commands, engine, cmd, ctx) # None

Accepts(u, engine, cmd, ctx, force, mode) ==
    /\ LooksUp(force, mode)
    /\ CachedLookup(u.store.commands, engine, cmd, ctx) # None
    /\ ~(mode = "normal"
         /\ u.store.commands[CachedLookup(u.store.commands, engine, cmd, ctx)[1]].output_file
                = None)

\* execute_with_store after the lookup: r is what execute_command gave; the
\* live command takes 3 seconds if slow, no time if not, and the whole timeout
\* if no prompt comes
Executed(r, engine, cmd, ctx, slow, t) ==
    LET duration == IF r.saw = "timeout" THEN DEFAULT_TIMEOUT
                    ELSE IF slow /\ r.saw = "prompt" THEN 3 ELSE 0
        is_error == StartsWith(Strip(r.val), ErrorPrefix)
        updated == MaybeUpdateContext(r.u, engine, cmd)
    IN  IF r.exc # ""
        THEN [u |-> r.u, exc |-> r.exc, val |-> r.val, result |-> None,
              wire |-> r.wire, saw |-> r.saw, live |-> TRUE]
        ELSE CHOOSE o \in
                {[u |-> [updated EXCEPT !.store = saved], exc |-> "", val |-> r.val,
                  result |-> Some(saved.commands[MakeId(engine, cmd, ctx)]),
                  wire |-> r.wire, saw |-> r.saw, live |-> TRUE] :
                 saved \in {Save(updated.store, engine, cmd, r.val, ctx, is_error,
                                 duration, FALSE, FALSE, t)}} : TRUE

\* execute_with_store(command, timeout=DEFAULT_TIMEOUT, force) at time t under
\* cache mode `mode`
ExecuteWithStore(u, command, force, a, slow, mode, t) ==
    LET engine == ParseCommand(command)[1]
        cmd == ParseCommand(command)[2]
        ctx == RelevantContext(u, cmd)
        looked == [u EXCEPT !.store = IF LooksUp(force, mode)
                                       THEN GetCached(@, engine, cmd, ctx) ELSE @]
    IN  IF Accepts(u, engine, cmd, ctx, force, mode)
        THEN [u |-> looked, exc |-> "", val |-> <<>>,
              result |-> Some(looked.store.commands[MakeId(engine, cmd, ctx)]),
              wire |-> <<>>, saw |-> "", live |-> FALSE]
        ELSE CHOOSE o \in
                {Executed(r, engine, cmd, ctx, slow, t) :
                 r \in {UnifiedExecuteCommand(looked, EngineText(engine) \o cmd, a)}} : TRUE

\* UnifiedSession.close
CloseUnified(u) ==
    [u EXCEPT !.crash = IF @ # None THEN Some(CloseSession(@[1])) ELSE @,
              !.drgn = IF @ # None THEN Some(CloseSession(@[1])) ELSE @]

\* UnifiedSession.is_active
UnifiedIsActive(u) ==
    \/ u.crash # None /\ IsActive(u.crash[1])
    \/ u.drgn # None /\ IsActive(u.drgn[1])

CmdDot == <<"a", ".", "b">>
CrashBt == PrefixCrash \o CmdBt
DrgnTask == PrefixDrgn \o CmdTask
PykdumpBt == PrefixPykdump \o CmdBt
CmdBtDot == <<" ", "b", "t", " ", "a", ".", "b">>
CrashDot == PrefixCrash \o <<" ">> \o CmdDot
CmdVm == <<"v", "m">>
UCommands == {CmdBt, CmdTask, CmdDot, CrashBt, DrgnTask, PykdumpBt, CmdBtDot, CrashDot, CmdVm}

NoUCall ==
    [name |-> "", command |-> <<>>, force |-> FALSE, prior |-> None,
     engine_active |-> FALSE]
NoUResult ==
    [exc |-> "", val |-> <<>>, result |-> None, wire |-> <<>>, saw |-> "", live |-> FALSE]

\* the session the command-line routes to, None if that engine did not start
RoutedSession(u, command) ==
    IF RouteOf(command) = "drgn" THEN u.drgn ELSE u.crash

\* the entry the store holds under the id of the command, if any
PriorEntry(u, command) ==
    LET id == MakeId(ParseCommand(command)[1], ParseCommand(command)[2],
                     RelevantContext(u, ParseCommand(command)[2]))
    IN  IF id \in DOMAIN u.store.commands THEN Some(u.store.commands[id]) ELSE None

-----------------------------------------------------------------------------
(* The tool layer (tools/session_mgmt.py, tools/utils.py, context.py).     *)
(* The host is a record                                                    *)
(*   mgr:      context.session_manager                                     *)
(*   sessions: context.sessions, session_id -> UnifiedSession              *)
(*   last:     context.last_session_id, None or an id                      *)
(*   disk:     the workdirs, workdir -> [files, manifest]                  *)
(* and a tool answers with a record [status, sid, text, output, stopped];  *)
(* stopped tells how session.stop() left the engines of a session closed.  *)

\* successful opens one session may hold at a time
MaxOpens == 2

NoSessions == [s \in {} |-> <<>>]
NoDisk == [w \in {} |-> <<>>]

NewHost == [mgr |-> NewManager, sessions |-> NoSessions, last |-> None, disk |-> NoDisk]

\* json_response
JsonResponse(status, sid, text, output) ==
    [status |-> status, sid |-> sid, text |-> text, output |-> output, stopped |-> None]

ToolOutcome(h, answer) == [h |-> h, resp |-> answer]

\* dict without one key
Without(f, k) == [x \in DOMAIN f \ {k} |-> f[x]]

\* get_session: the host afterwards, the id found, and the ValueError if any
GetSession(h, session_id) ==
    LET target_id == IF session_id # None THEN session_id ELSE h.last
    IN  IF target_id = None
        THEN [h |-> h, sid |-> 0, exc |-> "ValueError",
              val |-> <<"No session specified and no active default session.">>]
        ELSE IF target_id[1] \notin DOMAIN h.sessions
        THEN [h |-> h, sid |-> target_id[1], exc |-> "ValueError",
              val |-> <<"Session ID not found.">>]
        ELSE IF ~UnifiedIsActive(h.sessions[target_id[1]])
        THEN [h |-> [h EXCEPT !.sessions = Without(@, target_id[1]),
                              !.mgr = RemoveSession(@, target_id[1])],
              sid |-> target_id[1], exc |-> "ValueError",
              val |-> <<"Session is no longer active.">>]
        ELSE [h |-> h, sid |-> target_id[1], exc |-> "", val |-> <<>>]

\* the CommandStore a UnifiedSession builds on its workdir
StoreOn(disk, workdir) ==
    IF workdir \in DOMAIN disk
    THEN NewStore(disk[workdir].files, disk[workdir].manifest)
    ELSE NewStore(NoFiles, None)

\* what a session's store has left in its workdir
Written(disk, workdir, st) ==
    (workdir :> [files |-> st.files, manifest |-> st.manifest]) @@ disk

\* open_vmcore_session(vmcore_path, vmlinux_path); fs are the files on disk,
\* uuid the value uuid4() gives, hc, a, hd how the engines start
OpenVmcoreSession(h, fs, vmcore_path, vmlinux_path, uuid, hc, a, hd) ==
    LET got == GetOrCreateResult(h.mgr, fs, vmcore_path, uuid)
        m == GetOrCreate(h.mgr, fs, vmcore_path, vmlinux_path, uuid)
        sid == got.sid
        workdir == m.sessions[sid].workdir
        started == StartUnified(NewUnified(StoreOn(h.disk, workdir)), hc, a, hd)
    IN  IF fs[vmcore_path] = None
        THEN ToolOutcome(h, JsonResponse("error", 0, <<"Dump file not found locally">>, <<>>))
        ELSE IF ~got.is_new /\ sid \in DOMAIN h.sessions
        THEN ToolOutcome([h EXCEPT !.mgr = Acquire(m, sid), !.last = Some(sid)],
                         JsonResponse("success", sid, <<>>, <<>>))
        ELSE IF started.exc # ""
        THEN ToolOutcome([h EXCEPT !.mgr = RemoveSession(m, sid)],
                         JsonResponse("error", sid,
                                      <<"Failed to start session: ">> \o started.val, <<>>))
        ELSE ToolOutcome([h EXCEPT !.sessions = (sid :> started.u) @@ @,
                                   !.mgr = Acquire(m, sid),
                                   !.last = Some(sid),
                                   !.disk = Written(@, workdir, started.u.store)],
                         JsonResponse("success", sid, <<>>, <<>>))

\* the state of the two engines' children, "unset" for an engine that is None
Engines(u) ==
    [e \in {"crash", "drgn"} |-> IF u[e] = None THEN "unset" ELSE u[e][1].process]

\* close_vmcore_session(session_id)
CloseVmcoreSession(h, session_id) ==
    LET g == GetSession(h, session_id)
        ref_count == ReleaseResult(g.h.mgr, g.sid)
        released == [g.h EXCEPT !.mgr = Release(@, g.sid)]
    IN  IF g.exc # ""
        THEN ToolOutcome(g.h, JsonResponse("error", g.sid, g.val, <<>>))
        ELSE IF ref_count > 0
        THEN ToolOutcome(released, JsonResponse("success", g.sid, <<"Session released">>, <<>>))
        ELSE ToolOutcome([released EXCEPT
                            !.sessions = Without(@, g.sid),
                            !.mgr = RemoveSession(@, g.sid),
                            !.last = IF @ = Some(g.sid) THEN None ELSE @],
                         [JsonResponse("success", g.sid, <<"Session closed">>, <<>>)
                            EXCEPT !.stopped = Some(Engines(CloseUnified(g.h.sessions[g.sid])))])

\* commands run_crash_command does not let return an empty output
NeverSilent ==
    {<<"r", "d">>, <<"p">>, <<"s", "t", "r", "u", "c", "t">>, <<"u", "n", "i", "o", "n">>,
     <<"d", "i", "s">>, <<"b", "t">>, <<"p", "s">>, <<"s", "y", "m">>, <<"l", "i", "s", "t">>,
     <<"d", "e", "v">>, <<"m", "a", "c", "h">>, <<"s", "y", "s">>, <<"i", "r", "q">>,
     <<"t", "a", "s", "k">>}

\* _format_command_response(result, max_lines): the lines shown
FormatCommandResponse(st, result, sid) ==
    LET lines ==
            IF result.output_file # None /\ result.output_file[1] \in DOMAIN st.files
            THEN Splitlines(st.files[result.output_file[1]])
            ELSE IF result.output_content # None
            THEN Splitlines(result.output_content[1])
            ELSE <<>>
    IN  JsonResponse("success", sid, <<>>,
                     JoinLines(Take(lines, OUTPUT_TRUNCATE_LINES)))

\* what a run_*_command tool makes of r, the outcome of execute_with_store on
\* the session g found
RunAnswer(g, r, prefix, command) ==
    LET workdir == g.h.mgr.sessions[g.sid].workdir
        after == [g.h EXCEPT !.sessions[g.sid] = r.u,
                             !.disk = Written(@, workdir, r.u.store)]
        file_read == r.result[1].output_file # None
                     /\ ~(prefix = PrefixPykdump)
        content == r.u.store.files[r.result[1].output_file[1]]
    IN  IF r.exc # ""
        THEN ToolOutcome(after, JsonResponse("error", g.sid, <<r.exc>> \o r.val, <<>>))
        ELSE IF file_read /\ r.result[1].output_file[1] \notin DOMAIN r.u.store.files
        THEN ToolOutcome(after, JsonResponse("error", g.sid, <<"FileNotFoundError">>, <<>>))
        ELSE IF file_read /\ prefix = PrefixCrash /\ Strip(content) = <<>>
                /\ Split(Strip(command))[1] \in NeverSilent
        THEN ToolOutcome(after, JsonResponse("error", g.sid, <<"returned no output">>, <<>>))
        ELSE ToolOutcome(after, FormatCommandResponse(r.u.store, r.result[1], g.sid))

\* the session g found, run through execute_with_store
RunFound(g, prefix, command, force_execute, a, slow, mode, t) ==
    CHOOSE o \in {RunAnswer(g, r, prefix, command) :
                    r \in {ExecuteWithStore(g.h.sessions[g.sid], prefix \o command,
                                            force_execute, a, slow, mode, t)}} : TRUE

\* run_crash_command / run_drgn_command / run_pykdump_command: prefix is the
\* engine prefix the tool puts before the command. The hints the crash and
\* drgn tools append to an output that reports an error leave the status as
\* it is and are left out.
RunCommand(h, prefix, command, session_id, force_execute, a, slow, mode, t) ==
    CHOOSE o \in {IF g.exc # ""
                  THEN ToolOutcome(g.h, JsonResponse("error", g.sid, g.val, <<>>))
                  ELSE RunFound(g, prefix, command, force_execute, a, slow, mode, t) :
                  g \in {GetSession(h, session_id)}} : TRUE

NoRequest == [name |-> ""]
NoResponse == JsonResponse("", 0, <<>>, <<>>)
-----------------------------------------------------------------------------
(* Behaviours. Each specification drives one component; the state of the   *)
(* others stays as constructed.                                            *)

StoreIdle ==
    /\ store = NewStore(NoFiles, None)
    /\ now = 0
    /\ sop = NoArgs
    /\ sret = Returned(None)

MgrIdle ==
    /\ mgr = NewManager
    /\ targets = [p \in Paths |-> None]
    /\ uuids = 0
    /\ mop = NoCall
    /\ mret = NoReturn

TermIdle ==
    /\ term = NewSession("crash")
    /\ tcall = NoCommand
    /\ tret = NoResult

UniIdle ==
    /\ us = NewUnified(NewStore(NoFiles, None))
    /\ cache_mode = "normal"
    /\ clock = 0
    /\ ucall = NoUCall
    /\ uret = NoUResult

ToolIdle ==
    /\ host = NewHost
    /\ opens = [s \in 1..MaxSessions |-> 0]
    /\ req = NoRequest
    /\ resp = NoResponse

\* no close under way, on a session spawned with PopenSpawn
CloseIdle == closing = [spawn |-> "PopenSpawn", pc |-> "no", heeds |-> FALSE]

\* no handshake under way
SyncIdle == sync = NewSync(None, TRUE)

IdIdle ==
    /\ contexts = <<EmptyCtx, EmptyCtx>>
    /\ made = None

exceptStore == <<mgrVars, termVars, uniVars, toolVars, idVars, closeVars, syncVars>>
exceptMgr == <<storeVars, termVars, uniVars, toolVars, idVars, closeVars, syncVars>>
exceptTerm == <<storeVars, mgrVars, uniVars, toolVars, idVars, closeVars, syncVars>>
exceptUni == <<storeVars, mgrVars, termVars, toolVars, idVars, closeVars, syncVars>>
exceptTools == <<storeVars, termVars, uniVars, mgr, mop, mret, idVars, closeVars, syncVars>>
exceptIds == <<storeVars, mgrVars, termVars, uniVars, toolVars, closeVars, syncVars>>
exceptSync == <<storeVars, mgrVars, termVars, uniVars, toolVars, idVars, closeVars>>
StoreSave ==
    /\ UNCHANGED exceptStore
    /\    \E k \in SKeys, i \in SInputs, err \in BOOLEAN, wfail \in BOOLEAN :
        /\ now < MaxTime
        /\ NeedsPath(store, k[1], k[2], i[1], k[3], i[2], i[3]) => store.index < MaxIndex
        /\ store' = Save(store, k[1], k[2], i[1], k[3], err, i[2], i[3], wfail, now)
        /\ now' = now + 1
        /\ sop' = [NoArgs EXCEPT !.name = "save", !.engine = k[1], !.command = k[2],
                                 !.context = k[3], !.output = i[1], !.is_error = err,
                                 !.cid = Some(MakeId(k[1], k[2], k[3])),
                                 !.duration = i[2], !.force_save = i[3], !.wfail = wfail]
        /\ sret' = Returned(Some(store'.commands[MakeId(k[1], k[2], k[3])]))

StoreGetCached ==
    /\ UNCHANGED exceptStore
    /\    \E k \in SKeys :
        LET hit == CachedLookup(store.commands, k[1], k[2], k[3])
        IN  /\ store' = GetCached(store, k[1], k[2], k[3])
            /\ sop' = [NoArgs EXCEPT !.name = "get_cached", !.engine = k[1],
                                     !.command = k[2], !.context = k[3],
                                     !.cid = Some(MakeId(k[1], k[2], k[3]))]
            /\ sret' = Returned(IF hit # None THEN Some(store'.commands[hit[1]])
                                ELSE None)
            /\ now' = now

\* get_lines reads only: its result is GetLines(store, ...)
StoreGetLines ==
    /\ UNCHANGED exceptStore
    /\    \E cid \in SIds, offset \in 0..MaxOffset :
        /\ GetLines(store, cid, offset, MaxOffset).exc \in {"", "ValueError"}
        /\ UNCHANGED storeVars

\* a restart: a new CommandStore on the same workdir
StoreReload ==
    /\ UNCHANGED exceptStore
    /\    /\ store' = NewStore(store.files, store.manifest)
    /\ sop' = [NoArgs EXCEPT !.name = "init"]
    /\ sret' = Returned(None)
    /\ now' = now

\* the environment removes an output file from the workdir
StoreDeleteFile ==
    /\ UNCHANGED exceptStore
    /\    \E f \in DOMAIN store.files :
        /\ store' = [store EXCEPT
                        !.files = [g \in DOMAIN store.files \ {f} |-> store.files[g]]]
        /\ sop' = [NoArgs EXCEPT !.name = "unlink"]
        /\ sret' = Returned(None)
        /\ now' = now

StoreNext ==
    \/ StoreSave
    \/ StoreGetCached
    \/ StoreGetLines
    \/ StoreReload
    \/ StoreDeleteFile



\* context_lines search is called with
MaxContext == 2

\* n lines "a", each ended by a line break
RECURSIVE Rep(_)
Rep(n) == IF n = 0 THEN <<>> ELSE <<"a", "\n">> \o Rep(n - 1)

\* four lines, one of them empty and the last without a line break
OutMixed == <<"a", "\n", "B", "\n", "\n", "a", "b">>

\* outputs with no line, one line, four lines, and with one line less than,
\* as many as, and one line more than the search limit
PageOutputs ==
    {<<>>, OutANl, OutMixed, Rep(SearchLimit - 1), Rep(SearchLimit), Rep(SearchLimit + 1)}

\* the id that is saved, and one that is not
PageIds == {MakeId("crash", CmdBt, EmptyCtx), MakeId("drgn", CmdBt, PidCtx)}

Queries == {<<"a">>, <<"A">>, <<"b">>, <<".">>, <<"a", ".">>, <<"(">>, <<>>}

PageInit == StoreIdle /\ MgrIdle /\ TermIdle /\ UniIdle /\ ToolIdle /\ IdIdle /\ CloseIdle /\ SyncIdle

PageSave ==
    /\ UNCHANGED exceptStore
    /\    \E out \in PageOutputs, force \in BOOLEAN :
        /\ now < MaxTime
        /\ NeedsPath(store, "crash", CmdBt, out, EmptyCtx, 0, force) => store.index < MaxIndex
        /\ store' = Save(store, "crash", CmdBt, out, EmptyCtx, FALSE, 0, force, FALSE, now)
        /\ now' = now + 1
        /\ sop' = [NoArgs EXCEPT !.name = "save", !.engine = "crash", !.command = CmdBt,
                                 !.output = out, !.force_save = force,
                                 !.cid = Some(MakeId("crash", CmdBt, EmptyCtx))]
        /\ sret' = Returned(Some(store'.commands[MakeId("crash", CmdBt, EmptyCtx)]))

PageGetLines ==
    /\ UNCHANGED exceptStore
    /\    \E cid \in PageIds, offset \in 0..MaxOffset, limit \in 0..MaxOffset :
        /\ sop' = [NoArgs EXCEPT !.name = "get_lines", !.cid = Some(cid),
                                 !.offset = offset, !.limit = limit]
        /\ sret' = GetLines(store, cid, offset, limit)
        /\ UNCHANGED <<store, now>>

PageSearch ==
    /\ UNCHANGED exceptStore
    /\    \E cid \in PageIds, query \in Queries, context_lines \in 0..MaxContext :
        /\ sop' = [NoArgs EXCEPT !.name = "search", !.cid = Some(cid),
                                 !.query = query, !.context_lines = context_lines]
        /\ sret' = Search(store, cid, query, context_lines)
        /\ UNCHANGED <<store, now>>

PageNext ==
    \/ PageSave
    \/ PageGetLines
    \/ PageSearch

\* before any call, with the vmcore files the host happens to have
MgrInit ==
    /\ StoreIdle /\ TermIdle /\ UniIdle /\ ToolIdle /\ IdIdle /\ CloseIdle /\ SyncIdle
    /\ mgr = NewManager
    /\ targets \in [Paths -> {None} \cup {Some(c) : c \in Contents}]
    /\ uuids = 0
    /\ mop = NoCall
    /\ mret = NoReturn

MgrGetOrCreate ==
    /\ UNCHANGED exceptMgr
    /\    \E path \in Paths :
        /\ GetOrCreateResult(mgr, targets, path, uuids + 1).is_new => uuids < MaxSessions
        /\ mgr' = GetOrCreate(mgr, targets, path, "vmlinux", uuids + 1)
        /\ uuids' = IF GetOrCreateResult(mgr, targets, path, uuids + 1).is_new
                    THEN uuids + 1 ELSE uuids
        /\ mop' = [name |-> "get_or_create", sid |-> 0, path |-> path, before |-> mgr]
        /\ mret' = [NoReturn EXCEPT
                     !.sid = GetOrCreateResult(mgr, targets, path, uuids + 1).sid,
                     !.is_new = GetOrCreateResult(mgr, targets, path, uuids + 1).is_new]
        /\ UNCHANGED targets

MgrAcquire ==
    /\ UNCHANGED exceptMgr
    /\    \E sid \in 1..MaxSessions :
        /\ sid \in DOMAIN mgr.sessions => mgr.sessions[sid].ref_count < MaxRef
        /\ mgr' = Acquire(mgr, sid)
        /\ mop' = [NoCall EXCEPT !.name = "acquire", !.sid = sid]
        /\ mret' = [NoReturn EXCEPT !.ok = sid \in DOMAIN mgr.sessions]
        /\ UNCHANGED <<targets, uuids>>

MgrRelease ==
    /\ UNCHANGED exceptMgr
    /\    \E sid \in 1..MaxSessions :
        /\ sid \in DOMAIN mgr.sessions => mgr.sessions[sid].ref_count > -MaxRef
        /\ mgr' = Release(mgr, sid)
        /\ mop' = [NoCall EXCEPT !.name = "release", !.sid = sid]
        /\ mret' = [NoReturn EXCEPT !.count = ReleaseResult(mgr, sid)]
        /\ UNCHANGED <<targets, uuids>>

MgrRemoveSession ==
    /\ UNCHANGED exceptMgr
    /\    \E sid \in 1..MaxSessions :
        /\ mgr' = RemoveSession(mgr, sid)
        /\ mop' = [NoCall EXCEPT !.name = "remove_session", !.sid = sid]
        /\ mret' = NoReturn
        /\ UNCHANGED <<targets, uuids>>

MgrParseAndUpdateContext ==
    /\ UNCHANGED exceptMgr
    /\    \E sid \in 1..MaxSessions, engine \in {"crash", "drgn"}, c \in MCommands :
        /\ mgr' = ParseAndUpdateContext(mgr, sid, engine, c)
        /\ mop' = [NoCall EXCEPT !.name = "parse_and_update_context", !.sid = sid]
        /\ mret' = NoReturn
        /\ UNCHANGED <<targets, uuids>>

\* the environment rewrites a vmcore file, or makes it unreadable
MgrTargetChanges ==
    /\ UNCHANGED exceptMgr
    /\    \E path \in Paths, c \in {None} \cup {Some(x) : x \in Contents} :
        /\ targets[path] # c
        /\ targets' = [targets EXCEPT ![path] = c]
        /\ mop' = [NoCall EXCEPT !.name = "environment"]
        /\ mret' = NoReturn
        /\ UNCHANGED <<mgr, uuids>>

MgrNext ==
    \/ MgrGetOrCreate
    \/ MgrAcquire
    \/ MgrRelease
    \/ MgrRemoveSession
    \/ MgrParseAndUpdateContext
    \/ MgrTargetChanges


\* the (engine, command, context) triples saved before a restart: one of them
\* with an empty command
ReloadKeys ==
    {<<"crash", CmdBt, EmptyCtx>>, <<"drgn", CmdBt, PidCtx>>, <<"crash", <<>>, EmptyCtx>>}

ReloadInit == StoreIdle /\ MgrIdle /\ TermIdle /\ UniIdle /\ ToolIdle /\ IdIdle /\ CloseIdle /\ SyncIdle

\* save of an output that goes to a file or of one that stays in memory
ReloadSave ==
    /\ UNCHANGED exceptStore
    /\    \E k \in ReloadKeys, out \in {OutBC, OutANl}, err \in BOOLEAN :
        /\ now < MaxTime
        /\ NeedsPath(store, k[1], k[2], out, k[3], 0, FALSE) => store.index < MaxIndex
        /\ store' = Save(store, k[1], k[2], out, k[3], err, 0, FALSE, FALSE, now)
        /\ now' = now + 1
        /\ sop' = [NoArgs EXCEPT !.name = "save", !.engine = k[1], !.command = k[2],
                                 !.context = k[3], !.output = out, !.is_error = err,
                                 !.cid = Some(MakeId(k[1], k[2], k[3]))]
        /\ sret' = Returned(Some(store'.commands[MakeId(k[1], k[2], k[3])]))

ReloadNext ==
    \/ ReloadSave
    \/ StoreDeleteFile
    \/ StoreReload
TermInit ==
    /\ StoreIdle /\ MgrIdle /\ UniIdle /\ ToolIdle /\ IdIdle /\ CloseIdle /\ SyncIdle
    /\ term \in {NewSession("crash"), NewSession("drgn")}
    /\ tcall = NoCommand
    /\ tret = NoResult

Result(r) == [exc |-> r.exc, val |-> r.val, wire |-> r.wire, saw |-> r.saw]

TermStart ==
    /\ UNCHANGED exceptTerm
    /\ \E how \in StartOutcomes :
        /\ term.process = "none"
        /\ term' = StartSession(term, how).t
        /\ tcall' = [NoCommand EXCEPT !.name = "start"]
        /\ tret' = Result(StartSession(term, how))

\* commands of one line, a quit token, a command of two lines, one with a line
\* break at its end, a script file and a script file that does not exist
CmdTwoLines == <<"a", "\n", "b">>
CmdBtNl == <<"b", "t", "\n">>
TCommands == {CmdBt, CmdTask, <<"q">>, CmdTwoLines, CmdBtNl, ScriptPath, <<"n", ".", "p", "y">>}

TermExecuteCommand ==
    /\ UNCHANGED exceptTerm
    /\ \E command \in TCommands :
       \E o \in Answers({OutANl, BodyAnsi}) :
        /\ term.history < MaxHistory
        /\ Len(ExecuteCommand(term, command, o).t.buf) <= MaxBuf
        /\ term' = ExecuteCommand(term, command, o).t
        /\ tcall' = [NoCommand EXCEPT !.name = "execute_command", !.command = command,
                                       !.active = IsActive(term)]
        /\ tret' = Result(ExecuteCommand(term, command, o))

TermClose ==
    /\ UNCHANGED exceptTerm
    /\ term' = CloseSession(term)
    /\ tcall' = [NoCommand EXCEPT !.name = "close", !.active = IsActive(term)]
    /\ tret' = [NoResult EXCEPT !.wire = CloseWire(term)]

\* the child's output stream reaches end of file while no call is under way
ChildClosesStream ==
    /\ UNCHANGED exceptTerm
    /\ term.process = "running"
    /\ term' = [term EXCEPT !.process = "closed"]
    /\ tcall' = [NoCommand EXCEPT !.name = "environment"]
    /\ tret' = NoResult

\* the child process exits
ChildExits ==
    /\ UNCHANGED exceptTerm
    /\ term.process \in {"running", "closed"}
    /\ term' = [term EXCEPT !.process = "exited"]
    /\ tcall' = [NoCommand EXCEPT !.name = "environment"]
    /\ tret' = NoResult

TermNext ==
    \/ TermStart
    \/ TermExecuteCommand
    \/ TermClose
    \/ ChildClosesStream
    \/ ChildExits


-----------------------------------------------------------------------------
(* BaseSession.close step by step. closing.spawn is the class of _process: *)
(* "PopenSpawn" for a local session, "spawn" (pexpect.spawn) for a remote  *)
(* one. closing.pc is "no" when no close is under way, "sent" after        *)
(* sendline('quit'), "waiting" inside PopenSpawn.wait(). closing.heeds     *)
(* says whether the child exits when it reads the line quit.               *)

Spawns == {"PopenSpawn", "spawn"}

CloseInit ==
    /\ StoreIdle /\ MgrIdle /\ UniIdle /\ ToolIdle /\ IdIdle /\ SyncIdle
    /\ term \in {NewSession("crash"), NewSession("drgn")}
    /\ tcall = NoCommand
    /\ tret = NoResult
    /\ closing \in {[spawn |-> s, pc |-> "no", heeds |-> FALSE] : s \in Spawns}

exceptClose == <<storeVars, mgrVars, uniVars, toolVars, idVars, syncVars>>

\* start and execute_command, while no close is under way
CloseStarts ==
    /\ closing.pc = "no"
    /\ TermStart

CloseExecutes ==
    /\ closing.pc = "no"
    /\ TermExecuteCommand

\* close is called: it returns at once on a session that is not active, else
\* it sends quit; a sendline that fails on a child whose stream has ended
\* leads to the except branch, which kills the child
CloseSendsQuit ==
    /\ UNCHANGED exceptClose
    /\ closing.pc = "no"
    /\ tcall' = [NoCommand EXCEPT !.name = "close", !.active = IsActive(term)]
    /\ tret' = [NoResult EXCEPT !.wire = CloseWire(term)]
    /\ IF ~IsActive(term)
       THEN UNCHANGED <<term, closing>>
       ELSE \E raised \in IF term.process = "closed" THEN BOOLEAN ELSE {FALSE},
               heeds \in BOOLEAN :
               IF raised
               THEN /\ term' = CloseSession(term)
                    /\ UNCHANGED closing
               ELSE /\ closing' = [closing EXCEPT !.pc = "sent", !.heeds = heeds]
                    /\ UNCHANGED term

\* after the line is sent: pexpect.spawn has close(), which ends the child by
\* force and returns; PopenSpawn has no close(), so wait() is called
CloseEndsOrWaits ==
    /\ UNCHANGED exceptClose
    /\ closing.pc = "sent"
    /\ UNCHANGED <<tcall, tret>>
    /\ IF closing.spawn = "spawn"
       THEN /\ term' = [term EXCEPT !.process = "none", !.buf = <<>>]
            /\ closing' = [closing EXCEPT !.pc = "no"]
       ELSE /\ closing' = [closing EXCEPT !.pc = "waiting"]
            /\ UNCHANGED term

\* PopenSpawn.wait() returns once the child has exited; close then clears
\* _process and returns
CloseWaitReturns ==
    /\ UNCHANGED exceptClose
    /\ closing.pc = "waiting"
    /\ term.process = "exited"
    /\ term' = [term EXCEPT !.process = "none", !.buf = <<>>]
    /\ closing' = [closing EXCEPT !.pc = "no"]
    /\ UNCHANGED <<tcall, tret>>

\* the child reads the line quit and exits, if it is one that does
ChildQuits ==
    /\ UNCHANGED exceptClose
    /\ closing.pc \in {"sent", "waiting"}
    /\ closing.heeds
    /\ term.process \in {"running", "closed"}
    /\ term' = [term EXCEPT !.process = "exited"]
    /\ UNCHANGED <<tcall, tret, closing>>

\* the child exits for a reason of its own
ChildDies ==
    /\ UNCHANGED exceptClose
    /\ term.process \in {"running", "closed"}
    /\ term' = [term EXCEPT !.process = "exited"]
    /\ UNCHANGED <<tcall, tret, closing>>

CloseNext ==
    \/ CloseStarts
    \/ CloseExecutes
    \/ CloseSendsQuit
    \/ CloseEndsOrWaits
    \/ CloseWaitReturns
    \/ ChildQuits
    \/ ChildDies

\* a session with the default cache mode, for the routing and the engines
UniInit ==
    /\ StoreIdle /\ MgrIdle /\ TermIdle /\ ToolIdle /\ IdIdle /\ CloseIdle /\ SyncIdle
    /\ us = NewUnified(NewStore(NoFiles, None))
    /\ cache_mode = "normal"
    /\ clock = 0
    /\ ucall = NoUCall
    /\ uret = NoUResult

\* a session under each cache mode, for the cache
CacheInit ==
    /\ StoreIdle /\ MgrIdle /\ TermIdle /\ ToolIdle /\ IdIdle /\ CloseIdle /\ SyncIdle
    /\ us = NewUnified(NewStore(NoFiles, None))
    /\ cache_mode \in {"disable", "normal", "force"}
    /\ clock = 0
    /\ ucall = NoUCall
    /\ uret = NoUResult

\* in time, or not at all; a stream that ends is UniChildClosesStream
InTime == [then |-> "prompt", body |-> OutANl]
Never == [then |-> "hang", body |-> <<>>]

\* in time, with an output that reports an error
Failing == [then |-> "prompt", body |-> ErrorPrefix \o <<" ", "x", "\n">>]

WithinBounds(u) ==
    /\ u.crash # None => Len(u.crash[1].buf) <= MaxBuf /\ u.crash[1].history <= MaxHistory
    /\ u.drgn # None => Len(u.drgn[1].buf) <= MaxBuf

UniStart ==
    /\ UNCHANGED exceptUni
    /\ ucall.name = ""
    /\ \E hc \in {"ok", "no_binary", "no_prompt"}, hd \in {"ok", "no_binary", "no_prompt"},
          a \in {[then |-> "prompt", body |-> SetBody], Never} :
       \E r \in {StartUnified(us, hc, a, hd)} :
        /\ us' = r.u
        /\ ucall' = [NoUCall EXCEPT !.name = "start"]
        /\ uret' = [NoUResult EXCEPT !.exc = r.exc, !.val = r.val, !.wire = r.wire]
        /\ UNCHANGED <<cache_mode, clock>>

UniExecuteCommand ==
    /\ UNCHANGED exceptUni
    /\ ucall.name # ""
    /\ \E command \in UCommands :
       \E a \in {InTime} :
        \E r \in {UnifiedExecuteCommand(us, command, a)} :
            /\ WithinBounds(r.u)
            /\ us' = r.u
            /\ ucall' = [NoUCall EXCEPT !.name = "execute_command", !.command = command,
                            !.engine_active = RoutedSession(us, command) # None
                                              /\ IsActive(RoutedSession(us, command)[1])]
            /\ uret' = [NoUResult EXCEPT !.exc = r.exc, !.val = r.val, !.wire = r.wire,
                                         !.saw = r.saw, !.live = TRUE]
            /\ UNCHANGED <<cache_mode, clock>>

\* execute_with_store for a command, a force flag and an answer out of the sets given
ExecuteWithStoreStep(commands, forces, slows, answers) ==
    /\ UNCHANGED exceptUni
    /\ ucall.name # ""
    /\ \E command \in commands, force \in forces, slow \in slows, a \in answers :
        \E r \in {ExecuteWithStore(us, command, force, a, slow, cache_mode, clock)} :
            /\ WithinBounds(r.u)
            /\ r.live => clock < MaxTime
            /\ r.u.store.index <= MaxIndex
            /\ us' = r.u
            /\ clock' = IF r.live /\ r.exc = "" THEN clock + 1 ELSE clock
            /\ ucall' = [NoUCall EXCEPT !.name = "execute_with_store",
                            !.command = command, !.force = force,
                            !.prior = PriorEntry(us, command),
                            !.engine_active = RoutedSession(us, command) # None
                                              /\ IsActive(RoutedSession(us, command)[1])]
            /\ uret' = [exc |-> r.exc, val |-> r.val, result |-> r.result,
                        wire |-> r.wire, saw |-> r.saw, live |-> r.live]
            /\ UNCHANGED cache_mode

\* execute_with_store(force=True), the child answering in time or not at all
UniForcedExecuteWithStore ==
    ExecuteWithStoreStep({CrashBt, DrgnTask}, {TRUE}, {FALSE}, {InTime, Never})

\* execute_with_store, the child answering in time
UniExecuteWithStore ==
    ExecuteWithStoreStep({CrashBt, DrgnTask, CmdSetPid}, BOOLEAN, BOOLEAN, {InTime, Failing})

\* set commands and others: for crash with a key of the context, with a word
\* after the value, for the other engines, with another key, without a value
CmdSetCpu == <<"s", "e", "t", " ", "c", "p", "u", " ", "2">>
CmdSetPidMore == <<"s", "e", "t", " ", "p", "i", "d", " ", "3", " ", "x">>
DrgnSetPid == PrefixDrgn \o <<"s", "e", "t", " ", "p", "i", "d", " ", "3">>
PykdumpSetCpu == PrefixPykdump \o CmdSetCpu
CmdSetOther == <<"s", "e", "t", " ", "x", " ", "1">>
CmdSetShort == <<"s", "e", "t", " ", "p", "i", "d">>
ContextCommands ==
    {CmdSetCpu, CmdSetPidMore, DrgnSetPid, PykdumpSetCpu, CmdSetOther, CmdSetShort, CrashBt}

\* execute_with_store of set commands and others
UniSetContext ==
    ExecuteWithStoreStep(ContextCommands, BOOLEAN, {FALSE}, {InTime, Never})

\* execute_with_store of two set commands for one key, and of a command that
\* depends on the context, fast or slow, under the cache
UniSetCached ==
    ExecuteWithStoreStep({CmdSetPid, CmdSetPidMore, CrashBt}, BOOLEAN, BOOLEAN, {InTime})

\* execute_with_store under the cache, the child answering in time or not at all
UniStoreOrTimeout ==
    ExecuteWithStoreStep({CrashBt, DrgnTask}, {FALSE}, BOOLEAN, {InTime, Never})

\* execute_with_store of commands without a prefix: of the crash vocabulary,
\* a drgn name, with a dot and an assignment
CmdAssign == <<"x", " ", "=", " ", "1">>
UniExecuteUnprefixed ==
    ExecuteWithStoreStep({CmdBt, CmdTask, CmdDot, CmdAssign}, BOOLEAN, {FALSE}, {InTime})

UniClose ==
    /\ UNCHANGED exceptUni
    /\ ucall.name # ""
    /\ us' = CloseUnified(us)
    /\ ucall' = [NoUCall EXCEPT !.name = "close"]
    /\ uret' = NoUResult
    /\ UNCHANGED <<cache_mode, clock>>

\* the output stream of one engine's child reaches end of file
UniChildClosesStream ==
    /\ UNCHANGED exceptUni
    /\ \E e \in {"crash", "drgn"} :
        /\ us[e] # None /\ us[e][1].process = "running"
        /\ us' = [us EXCEPT ![e] = Some([@[1] EXCEPT !.process = "closed"])]
        /\ ucall' = [NoUCall EXCEPT !.name = "environment"]
        /\ uret' = NoUResult
        /\ UNCHANGED <<cache_mode, clock>>

\* one engine's child exits
UniChildExits ==
    /\ UNCHANGED exceptUni
    /\ \E e \in {"crash", "drgn"} :
        /\ us[e] # None /\ us[e][1].process \in {"running", "closed"}
        /\ us' = [us EXCEPT ![e] = Some([@[1] EXCEPT !.process = "exited"])]
        /\ ucall' = [NoUCall EXCEPT !.name = "environment"]
        /\ uret' = NoUResult
        /\ UNCHANGED <<cache_mode, clock>>

UniNext ==
    \/ UniStart
    \/ UniExecuteCommand
    \/ UniForcedExecuteWithStore
    \/ UniClose
    \/ UniChildClosesStream
    \/ UniChildExits

CacheNext ==
    \/ UniStart
    \/ UniExecuteWithStore


ContextNext ==
    \/ UniStart
    \/ UniSetContext

SetCacheNext ==
    \/ UniStart
    \/ UniSetCached

TimeoutCacheNext ==
    \/ UniStart
    \/ UniStoreOrTimeout

DispatchNext ==
    \/ UniStart
    \/ UniExecuteUnprefixed

\* ---- _smart_truncate on outputs around the limit ----
Chars(c, n) == [c |-> c, n |-> n]
CmdLog == <<"l", "o", "g">>
CmdLogM == <<"l", "o", "g", " ", "-", "m">>
CmdLogs == <<"l", "o", "g", "s">>
CmdBlank == <<" ">>
TruncCommands == {CmdBt, CmdLog, CmdLogM, CmdLogs, CmdBlank}
\* texts of one run and of two runs, of lengths at, under and over the limits
TruncOutputs ==
    {<<>>}
    \cup {<<Chars("a", n)>> : n \in {1, HEAD_LEN, MAX_LEN - 1, MAX_LEN, MAX_LEN + 1,
                                  2 * MAX_LEN, 7 * MAX_LEN}}
    \cup {<<Chars("a", h), Chars("b", t)>> :
              h \in {1, HEAD_LEN - 1, HEAD_LEN, HEAD_LEN + 1},
              t \in {TAIL_LEN - 1, TAIL_LEN, TAIL_LEN + 1, MAX_LEN}}

TruncInit ==
    /\ StoreIdle /\ MgrIdle /\ UniIdle /\ ToolIdle /\ IdIdle /\ CloseIdle /\ SyncIdle
    /\ term \in {NewSession("crash"), NewSession("drgn")}
    /\ tcall \in {[NoCommand EXCEPT !.command = c, !.output = o] :
                      c \in TruncCommands, o \in TruncOutputs}
    /\ tret = NoResult

TruncApply ==
    /\ UNCHANGED exceptTerm
    /\ tcall.name = ""
    /\ \E r \in {SmartTruncate(term, tcall.output, tcall.command)} :
        /\ tcall' = [tcall EXCEPT !.name = "_smart_truncate"]
        /\ tret' = [NoResult EXCEPT !.exc = r.exc, !.val = r.val]
    /\ UNCHANGED term

TruncNext == TruncApply

\* the vmcore files of the host: one dump under both paths, or two dumps
SameDump == [p \in Paths |-> Some([head |-> "x", tail |-> "1"])]
TwoDumps == [p \in Paths |-> Some([head |-> IF p = "/a" THEN "x" ELSE "y", tail |-> "1"])]

\* a path with no file
NoPath == "/none"

\* the server before any call
ToolInit ==
    /\ StoreIdle /\ TermIdle /\ UniIdle /\ IdIdle /\ CloseIdle /\ SyncIdle
    /\ mgr = NewManager
    /\ targets \in {SameDump, TwoDumps}
    /\ uuids = 0
    /\ mop = NoCall
    /\ mret = NoReturn
    /\ host = NewHost
    /\ opens = [s \in 1..MaxSessions |-> 0]
    /\ req = NoRequest
    /\ resp = NoResponse

\* session_id arguments: omitted, or one of the ids handed out
SessionIds == {None} \cup {Some(s) : s \in 1..MaxSessions}

ToolOpen ==
    /\ UNCHANGED exceptTools
    /\ \E path \in Paths \cup {NoPath}, hc \in {"ok", "no_binary"}, hd \in {"ok", "no_binary"} :
       \E r \in {OpenVmcoreSession(host, (NoPath :> None) @@ targets, path, "vmlinux",
                                   uuids + 1, hc,
                                   [then |-> "prompt", body |-> SetBody], hd)} :
        /\ r.resp.sid = uuids + 1 => uuids < MaxSessions
        /\ r.resp.status = "success" => opens[r.resp.sid] < MaxOpens
        /\ host' = r.h
        /\ uuids' = IF r.resp.sid = uuids + 1 THEN uuids + 1 ELSE uuids
        /\ UNCHANGED targets
        /\ opens' = IF r.resp.status = "success"
                    THEN [opens EXCEPT ![r.resp.sid] = @ + 1] ELSE opens
        /\ req' = [NoRequest EXCEPT !.name = "open_vmcore_session"]
        /\ resp' = r.resp

ToolClose ==
    /\ UNCHANGED exceptTools
    /\ \E session_id \in SessionIds :
       \E r \in {CloseVmcoreSession(host, session_id)} :
        /\ host' = r.h
        /\ opens' = [s \in 1..MaxSessions |->
                        IF s \notin DOMAIN r.h.sessions THEN 0
                        ELSE IF r.resp.status = "success" /\ s = r.resp.sid
                        THEN opens[s] - 1 ELSE opens[s]]
        /\ UNCHANGED <<targets, uuids>>
        /\ req' = [NoRequest EXCEPT !.name = "close_vmcore_session"]
        /\ resp' = r.resp

\* a run_*_command call for one command, force_execute out of forces
Run(name, prefix, command, forces) ==
    /\ UNCHANGED exceptTools
    /\ \E session_id \in SessionIds, force_execute \in forces :
       \E r \in {RunCommand(host, prefix, command, session_id, force_execute,
                            InTime, TRUE, cache_mode, clock)} :
        /\ \A s \in DOMAIN r.h.sessions : WithinBounds(r.h.sessions[s])
        /\ host' = r.h
        /\ opens' = [s \in 1..MaxSessions |->
                        IF s \notin DOMAIN r.h.sessions THEN 0 ELSE opens[s]]
        /\ UNCHANGED <<targets, uuids>>
        /\ req' = [NoRequest EXCEPT !.name = name]
        /\ resp' = r.resp

\* run_crash_command(command), force_execute left at its default
ToolRunCrashCommand == Run("run_crash_command", PrefixCrash, CmdBt, {FALSE})

\* one engine's child goes: its output stream reaches end of file ("closed"),
\* or it exits ("exited")
ChildGoes(ways) ==
    /\ UNCHANGED exceptTools
    /\ \E s \in DOMAIN host.sessions, e \in {"crash", "drgn"}, to \in ways :
        /\ host.sessions[s][e] # None
        /\ host.sessions[s][e][1].process = "running"
        /\ host' = [host EXCEPT !.sessions[s][e] = Some([@[1] EXCEPT !.process = to])]
        /\ req' = [NoRequest EXCEPT !.name = "environment"]
        /\ resp' = NoResponse
        /\ UNCHANGED <<opens, targets, uuids>>

ToolChildExits == ChildGoes({"exited"})

\* sessions opened, used by the crash tool and closed
ToolNext ==
    \/ ToolOpen
    \/ ToolClose
    \/ ToolRunCrashCommand
    \/ ToolChildExits

\* ---- the echo stripping of DrgnSession.execute_command on texts of a few lines ----
MaxEchoLines == 3
\* an echo, an echo behind a prompt, bare continuation and prompt marks, an
\* empty line, a line of output and a continuation line of something else
EchoLines ==
    {<<"x">>, <<">", ">", ">", " ", "x">>, <<".", ".", ".">>, <<">", ">", ">">>,
     <<>>, <<"a">>, <<".", ".", ".", " ", "y">>}
RECURSIVE RawOf(_)
RawOf(lines) == IF lines = <<>> THEN <<>> ELSE Head(lines) \o <<"\n">> \o RawOf(Tail(lines))
EchoRaws == {RawOf(lines) : lines \in UNION {[1..n -> EchoLines] : n \in 0..MaxEchoLines}}
EchoCommands == {<<"x">>, <<"x", " ">>, <<>>}

EchoInit ==
    /\ StoreIdle /\ MgrIdle /\ UniIdle /\ ToolIdle /\ IdIdle /\ CloseIdle /\ SyncIdle
    /\ term = NewSession("drgn")
    /\ tcall \in {[NoCommand EXCEPT !.command = c, !.output = raw] :
                      c \in EchoCommands, raw \in EchoRaws}
    /\ tret = NoResult

EchoApply ==
    /\ UNCHANGED exceptTerm
    /\ tcall.name = ""
    /\ tcall' = [tcall EXCEPT !.name = "strip_echo"]
    /\ tret' = [NoResult EXCEPT !.val = DrgnCleanOutput(tcall.output, tcall.command)]
    /\ UNCHANGED term

EchoNext == EchoApply

\* two unified sessions before any set command
IdInit ==
    /\ StoreIdle /\ MgrIdle /\ TermIdle /\ UniIdle /\ ToolIdle /\ CloseIdle /\ SyncIdle
    /\ contexts = <<EmptyCtx, EmptyCtx>>
    /\ made = None

\* set commands: a key of the context or another word, a plain value or one
\* with a comma and an equals sign
SetCommands ==
    {CmdSet \o <<" ">> \o k \o <<" ">> \o v :
        k \in {KeyPid, KeyCpu, <<"x">>},
        v \in {<<"1">>, <<"2">>, <<"1", ",", "p", "i", "d", "=", "2">>}}

\* commands whose ids are made: context-dependent ones and others
IdCommands == {CmdBt, CmdTask, CmdDot, <<"s", "y", "s">>}

\* execute_with_store of a set command on one of the sessions: what
\* _maybe_update_context does to its context
IdSetContext ==
    /\ UNCHANGED exceptIds
    /\ \E i \in {1, 2}, engine \in {"crash", "drgn"}, c \in SetCommands :
        /\ contexts' = [contexts EXCEPT
                            ![i] = MaybeUpdateContext([context |-> @], engine, c).context]
        /\ made' = None

\* execute_with_store of one command on both sessions: the ids _make_id
\* gives it under the relevant context of each
IdMake ==
    /\ UNCHANGED exceptIds
    /\ \E engine \in {"crash", "drgn"}, c \in IdCommands :
        /\ made' = Some([engine |-> engine, command |-> c,
                         ids |-> [i \in {1, 2} |->
                                    MakeId(engine, c,
                                           RelevantContext([context |-> contexts[i]], c))]])
        /\ UNCHANGED contexts

IdNext ==
    \/ IdSetContext
    \/ IdMake

\* ---- DrgnSession.start after the first prompt: _sync, the injection of tools_path, _sync ----
ToolsPaths == {None, Some(<<"/", "t">>), Some(<<"/", "u", "'">>)}

\* what the child wrote after its first prompt, before the first _sync
StartupNoise == {<<>>, <<"w", "\n">>}

SyncInit ==
    /\ StoreIdle /\ MgrIdle /\ TermIdle /\ UniIdle /\ ToolIdle /\ IdIdle /\ CloseIdle
    /\ sync \in {[NewSync(p, e) EXCEPT !.buf = From(n, "output")] :
                    p \in ToolsPaths, e \in BOOLEAN, n \in StartupNoise}

\* str.replace("'", "\\'")
SafePath(path) ==
    IF path = <<>> THEN <<>>
    ELSE LET F[i \in 0..Len(path)] ==
                 IF i = 0 THEN <<>>
                 ELSE F[i - 1] \o (IF path[i] = "'" THEN <<"\\", "'">> ELSE <<path[i]>>)
         IN  F[Len(path)]

\* _sync sends its line: the first time, and again after the injection
SyncSends ==
    /\ UNCHANGED exceptSync
    /\ sync.pc \in {"idle", "injected"}
    /\ sync' = SendLine(sync, SyncLine, expected_result,
                        IF sync.pc = "idle" THEN "result" ELSE "result again")

SyncSeesResult ==
    /\ UNCHANGED exceptSync
    /\ sync.pc \in {"result", "result again"}
    /\ Find(sync.buf, expected_result) # 0
    /\ sync' = Expect(sync, expected_result, "result",
                      IF sync.pc = "result" THEN "prompt" ELSE "prompt again")

\* the prompt after the result: start goes on to the injection if tools_path
\* is set and this was the first _sync, and returns otherwise
SyncSeesPrompt ==
    /\ UNCHANGED exceptSync
    /\ sync.pc \in {"prompt", "prompt again"}
    /\ Find(sync.buf, DrgnPrompt) # 0
    /\ sync' = Expect(sync, DrgnPrompt, "prompt",
                      IF sync.pc = "prompt" /\ sync.tools_path # None
                      THEN "synced" ELSE "started")

InjectSends ==
    /\ UNCHANGED exceptSync
    /\ sync.pc = "synced"
    /\ sync' = SendLine(sync, InjectLine(SafePath(sync.tools_path[1])), InjectToken, "token")

InjectSeesToken ==
    /\ UNCHANGED exceptSync
    /\ sync.pc = "token"
    /\ Find(sync.buf, InjectToken) # 0
    /\ sync' = Expect(sync, InjectToken, "token", "token prompt")

InjectSeesPrompt ==
    /\ UNCHANGED exceptSync
    /\ sync.pc = "token prompt"
    /\ Find(sync.buf, DrgnPrompt) # 0
    /\ sync' = Expect(sync, DrgnPrompt, "prompt", "injected")

\* what the terminal and the child have to write reaches the buffer piece by piece
SyncChildWrites ==
    /\ UNCHANGED exceptSync
    /\ sync.pending # <<>>
    /\ sync' = [sync EXCEPT !.pending = Tail(@), !.buf = @ \o Head(sync.pending)]

SyncNext ==
    \/ SyncSends
    \/ SyncSeesResult
    \/ SyncSeesPrompt
    \/ InjectSends
    \/ InjectSeesToken
    \/ InjectSeesPrompt
    \/ SyncChildWrites
vars == <<storeVars, mgrVars, termVars, uniVars, toolVars, idVars, closeVars, syncVars>>

\* a fresh CommandStore on an empty workdir
StoreInit == StoreIdle /\ MgrIdle /\ TermIdle /\ UniIdle /\ ToolIdle /\ IdIdle /\ CloseIdle /\ SyncIdle

SpecStore == StoreInit /\ [][StoreNext]_vars

SpecMgr == MgrInit /\ [][MgrNext]_vars

SpecSession == TermInit /\ [][TermNext]_vars

SpecUnified == UniInit /\ [][UniNext]_vars

SpecCache == CacheInit /\ [][CacheNext]_vars


SpecTools == ToolInit /\ [][ToolNext]_vars

SpecIds == IdInit /\ [][IdNext]_vars

SpecPages == PageInit /\ [][PageNext]_vars

SpecContext == UniInit /\ [][ContextNext]_vars

\* the steps of close and the child's answer to quit are taken when they can be
CloseFair ==
    /\ WF_vars(CloseEndsOrWaits)
    /\ WF_vars(CloseWaitReturns)
    /\ WF_vars(ChildQuits)

SpecClose == CloseInit /\ [][CloseNext]_vars /\ CloseFair

SpecReload == ReloadInit /\ [][ReloadNext]_vars

SpecTruncate == TruncInit /\ [][TruncNext]_vars

SpecEcho == EchoInit /\ [][EchoNext]_vars

SpecSync == SyncInit /\ [][SyncNext]_vars

SpecSetCache == CacheInit /\ [][SetCacheNext]_vars

SpecTimeoutCache == CacheInit /\ [][TimeoutCacheNext]_vars

SpecDispatch == UniInit /\ [][DispatchNext]_vars
-----------------------------------------------------------------------------
(* Claims about the CommandStore, checked under SpecStore.                 *)

SopKeyLookup == CachedLookup(store.commands, sop.engine, sop.command, sop.context)

\* C1: get_cached never returns an error-flagged result, and right after
\* save(..., is_error=True) a get_cached for the same (engine, command, context)
\* finds nothing, whatever was saved or reloaded before.
C1_NoErrorFromCache ==
    /\ sop.name = "get_cached" => (sret.val = None \/ ~sret.val[1].is_error)
    /\ (sop.name = "save" /\ sop.is_error) => SopKeyLookup = None

\* get_cached has just returned none for an id that is stored, error-flagged
C1_Witness ==
    /\ sop.name = "get_cached"
    /\ sret.val = None
    /\ sop.cid[1] \in DOMAIN store.commands
    /\ store.commands[sop.cid[1]].is_error
    /\ store.commands[sop.cid[1]].output_file # None

\* C2: right after save(..., is_error=False), get_cached returns the entry of
\* that id flagged cached, and its total line count and the content get_lines
\* reads over the whole range are those of the output just saved.
C2_CachedIsWhatWasSaved ==
    (sop.name = "save" /\ ~sop.is_error) =>
        LET cid == sop.cid[1]
            after == GetCached(store, sop.engine, sop.command, sop.context)
            saved == Splitlines(sop.output)
            got == GetLines(after, cid, 0, Len(saved))
        IN  /\ SopKeyLookup = Some(cid)
            /\ after.commands[cid].cached
            /\ after.commands[cid].total_lines = Len(saved)
            /\ got.exc = ""
            /\ got.val[1] = JoinLines(saved)
            /\ got.val[3] = Len(saved)


\* C13: no stored result has both an output file and an in-memory content.
C13_FileOrContent ==
    \A cid \in DOMAIN store.commands :
        store.commands[cid].output_file = None \/ store.commands[cid].output_content = None

\* C14: after a save whose file write succeeded, the entry has an output
\* file exactly when force_save was set or the output has more lines than
\* OUTPUT_TRUNCATE_LINES or the duration is above
\* COMMAND_SAVE_THRESHOLD_SECONDS; otherwise it has the output in memory and
\* no output file.
C14_FileBackedIffThreshold ==
    (sop.name = "save" /\ ~sop.wfail) =>
        LET entry == store.commands[sop.cid[1]]
        IN  IF sop.force_save
               \/ Len(Splitlines(sop.output)) > OUTPUT_TRUNCATE_LINES
               \/ sop.duration > COMMAND_SAVE_THRESHOLD_SECONDS
            THEN entry.output_file # None /\ entry.output_content = None
            ELSE entry.output_file = None /\ entry.output_content = Some(sop.output)
\* C25: whenever the store writes the manifest, every id in it has, at that
\* moment, a result with an output file, the one the manifest names; a result
\* held in memory only is not written.
C25_ManifestHoldsFileBacked ==
    [][store'.manifest # store.manifest =>
          /\ store'.manifest # None
          /\ \A cid \in DOMAIN store'.manifest[1] :
                 /\ cid \in DOMAIN store'.commands
                 /\ store'.commands[cid].output_file =
                        Some(store'.manifest[1][cid].output_file)]_vars

\* a save wrote the manifest while the store held a result in memory only
C25_Witness ==
    /\ sop.name = "save"
    /\ sret.val[1].output_file # None
    /\ store.manifest = Some(ManifestOf(store.commands))
    /\ \E cid \in DOMAIN store.commands :
           /\ store.commands[cid].output_file = None
           /\ cid \notin DOMAIN store.manifest[1]

-----------------------------------------------------------------------------
(* Claims about the restart of a store, checked under SpecReload.          *)

\* the ids of the manifest whose output file exists and whose command and
\* engine are not empty
Loadable(st) ==
    IF st.manifest = None THEN {}
    ELSE {cid \in DOMAIN st.manifest[1] :
            /\ st.manifest[1][cid].output_file \in DOMAIN st.files
            /\ st.manifest[1][cid].command # <<>>
            /\ st.manifest[1][cid].engine # ""}

\* C26: a new CommandStore on a workdir holds exactly the manifest's entries
\* whose output file exists and whose command and engine are present, each
\* with the command, engine, total lines, timestamp, duration and error flag
\* the manifest has, and the load does not fail.
C26_ReloadRecovers ==
    [][sop'.name = "init" =>
          /\ sret'.exc = ""
          /\ DOMAIN store'.commands = Loadable(store)
          /\ \A cid \in Loadable(store) :
                 LET e == store'.commands[cid]
                     w == store.manifest[1][cid]
                 IN  /\ e.command = w.command
                     /\ e.engine = w.engine
                     /\ e.output_file = Some(w.output_file)
                     /\ e.total_lines = w.total_lines
                     /\ e.timestamp = w.timestamp
                     /\ e.duration = w.duration
                     /\ e.is_error = w.is_error]_vars

\* a restart recovered one entry and skipped one whose file is gone
C26_Witness ==
    /\ sop.name = "init"
    /\ store.manifest # None
    /\ Cardinality(DOMAIN store.manifest[1]) = 2
    /\ Cardinality(DOMAIN store.commands) = 1
    /\ \E cid \in DOMAIN store.manifest[1] :
           store.manifest[1][cid].output_file \notin DOMAIN store.files

-----------------------------------------------------------------------------
(* Claims about pagination and search, checked under SpecPages.            *)

\* the lines of the output stored under the id of the last call
PageLines == StoredLines(store, sop.cid[1])[1]

\* lines a..b of the stored output, counted from 1
PageRange(a, b) == [i \in 1..(b - a + 1) |-> PageLines[a + i - 1]]

Min(a, b) == IF a < b THEN a ELSE b

\* C16: get_lines(id, offset, limit) on an output of T lines returns the lines
\* offset .. min(offset+limit, T)-1 joined by newlines, their number, T, and
\* hasMore false exactly when offset+limit >= T; get_lines(id, 0, N) followed
\* by get_lines(id, N, M) returns the first min(N+M, T) lines in two
\* adjoining ranges.
C16_GetLinesPages ==
    (sop.name = "get_lines" /\ sret.exc = "") =>
        LET T == Len(PageLines)
            end == Min(sop.offset + sop.limit, T)
        IN  /\ sret.val[1] = JoinLines(PageRange(sop.offset + 1, end))
            /\ sret.val[2] = Max(0, end - sop.offset)
            /\ sret.val[3] = T
            /\ (~sret.val[4]) <=> (sop.offset + sop.limit >= T)
            /\ sop.offset = 0 =>
                    \A M \in 0..MaxOffset :
                        LET second == GetLines(store, sop.cid[1], sop.limit, M).val
                        IN  /\ sret.val[2] + second[2] = Min(sop.limit + M, T)
                            /\ sret.val[1] = JoinLines(PageRange(1, sret.val[2]))
                            /\ second[1] = JoinLines(PageRange(sret.val[2] + 1,
                                                               sret.val[2] + second[2]))

\* get_lines returned the middle of an output with more lines after it
C16_Witness ==
    /\ sop.name = "get_lines" /\ sret.exc = ""
    /\ sop.offset = 1 /\ sop.limit = 2
    /\ sret.val[2] = 2 /\ sret.val[3] = 4 /\ sret.val[4]

\* the line numbers, counted from 1, of the lines the query of the last call matches
MatchingLines == {i \in 1..Len(PageLines) : Matches(PageLines[i], sop.query)}

\* the entries are the matching lines in ascending order, each with its number,
\* the line, and the lines around it
EntriesAreMatches(entries) ==
    /\ \A j \in 1..Len(entries) :
            LET e == entries[j]
            IN  /\ e.line_number \in MatchingLines
                /\ Cardinality({i \in MatchingLines : i < e.line_number}) = j - 1
                /\ e.line = PageLines[e.line_number]
                /\ e.context_before =
                       PageRange(Max(1, e.line_number - sop.context_lines), e.line_number - 1)
                /\ e.context_after =
                       PageRange(e.line_number + 1,
                                 Min(Len(PageLines), e.line_number + sop.context_lines))

\* C17: when more than SearchLimit lines match, search returns SearchLimit + 1
\* entries: the first SearchLimit matching lines in line order, then the warning
\* entry; no search returns more than SearchLimit + 1 entries.
C17_SearchIsCapped ==
    (sop.name = "search" /\ sret.exc = "") =>
        /\ Len(sret.val) <= SearchLimit + 1
        /\ Cardinality(MatchingLines) > SearchLimit =>
                /\ Len(sret.val) = SearchLimit + 1
                /\ EntriesAreMatches(SubSeq(sret.val, 1, SearchLimit))
                /\ sret.val[SearchLimit + 1] = WarningMatch

C17_Witness ==
    /\ sop.name = "search" /\ sret.exc = ""
    /\ Cardinality(MatchingLines) = SearchLimit + 1
    /\ Len(sret.val) = SearchLimit + 1

\* C18: when no more than SearchLimit lines match, search returns one entry per
\* matching line and nothing else, in ascending line order, each with the line
\* number, the line and up to context_lines lines before and after it, and no
\* warning entry.
C18_SearchReturnsMatches ==
    (sop.name = "search" /\ sret.exc = "" /\ Cardinality(MatchingLines) <= SearchLimit) =>
        /\ Len(sret.val) = Cardinality(MatchingLines)
        /\ EntriesAreMatches(sret.val)
        /\ \A j \in 1..Len(sret.val) : sret.val[j] # WarningMatch

\* C27: get_lines and search on an id the store does not hold raise ValueError,
\* and so does search with a pattern that does not compile on an id it holds;
\* neither call changes a stored result, an output file or the manifest.
C27_FailedReadsChangeNothing ==
    [][sop'.name \in {"get_lines", "search"} =>
          /\ sop'.cid[1] \notin DOMAIN store.commands => sret'.exc = "ValueError"
          /\ (sop'.name = "search" /\ \E j \in 1..Len(sop'.query) : sop'.query[j] = "(")
                 => sret'.exc = "ValueError"
          /\ store' = store]_vars

\* search with an unclosed parenthesis failed on an id whose output is in a file
C27_Witness ==
    /\ sop.name = "search"
    /\ sop.query = <<"(">>
    /\ sop.cid[1] \in DOMAIN store.commands
    /\ store.commands[sop.cid[1]].output_file # None
    /\ sret.exc = "ValueError"


\* the output files the results of the store refer to
FileBacked == {c \in DOMAIN store.commands : store.commands[c].output_file # None}

\* C32: no two command ids of the store refer to the same output file, and
\* the counter is at least the index of every file a result refers to, those
\* recovered by a load among them, so that the next generated name is new
C32_FilesNotShared ==
    /\ \A c1, c2 \in FileBacked :
          c1 # c2 => store.commands[c1].output_file # store.commands[c2].output_file
    /\ \A c \in FileBacked : PathIndex(store.commands[c].output_file[1]) <= store.index

\* a load has recovered two results with files, one of them with the index the counter takes
C32_Witness ==
    /\ sop.name = "init"
    /\ \E c1, c2 \in FileBacked :
          /\ c1 # c2
          /\ PathIndex(store.commands[c1].output_file[1]) = store.index
-----------------------------------------------------------------------------
\* C3: in every state reached through get_or_create, acquire and release,
\* every registered session's reference count is at least 0.
C3_RefCountNonNegative ==
    \A sid \in DOMAIN mgr.sessions : mgr.sessions[sid].ref_count >= 0

\* C5: no two registered sessions share a fingerprint; get_or_create for a
\* fingerprint that has a registered session returns that session's id with
\* is_new false and changes no registered session (workdir, context and
\* reference count included); otherwise it registers, under an id not in
\* use, a session of that fingerprint with the workdir named after it.
C5_GetOrCreateDedup ==
    /\ \A s, t \in DOMAIN mgr.sessions :
           mgr.sessions[s].vmcore_md5 = mgr.sessions[t].vmcore_md5 => s = t
    /\ mop.name = "get_or_create" =>
           LET fp == ComputeMd5(targets, mop.path)
               known == {s \in DOMAIN mop.before.sessions :
                            mop.before.sessions[s].vmcore_md5 = fp}
           IN  IF known # {}
               THEN /\ mret.sid \in known
                    /\ ~mret.is_new
                    /\ mgr.sessions = mop.before.sessions
               ELSE /\ mret.is_new
                    /\ mret.sid \notin DOMAIN mop.before.sessions
                    /\ DOMAIN mgr.sessions = DOMAIN mop.before.sessions \cup {mret.sid}
                    /\ mgr.sessions[mret.sid].vmcore_md5 = fp
                    /\ mgr.sessions[mret.sid].workdir = <<"workdir", fp>>
                    /\ \A s \in DOMAIN mop.before.sessions :
                           mgr.sessions[s] = mop.before.sessions[s]

\* a target reached by another path is matched to a session that is in use
\* and has a context
C5_Witness ==
    /\ mop.name = "get_or_create"
    /\ ~mret.is_new
    /\ mret.sid \in DOMAIN mgr.sessions
    /\ mgr.sessions[mret.sid].vmcore_path # mop.path
    /\ mgr.sessions[mret.sid].context # EmptyCtx
    /\ mgr.sessions[mret.sid].ref_count > 0
    /\ Cardinality(DOMAIN mgr.sessions) = 2

\* C19: release returns -1 exactly when the session id is not registered; for
\* a registered id it returns the session's new reference count, which is
\* never -1.
C19_ReleaseSentinel ==
    mop.name = "release" =>
        /\ (mret.count = -1) <=> (mop.sid \notin DOMAIN mgr.sessions)
        /\ mop.sid \in DOMAIN mgr.sessions =>
               mret.count = mgr.sessions[mop.sid].ref_count
-----------------------------------------------------------------------------
(* Claims about the terminal sessions, checked under SpecSession.          *)

\* C6: when the child writes no prompt within the timeout, execute_command
\* fails with a timeout error, in CrashSession and in DrgnSession alike, and
\* the session is still active.
C6_TimeoutFails ==
    (tcall.name = "execute_command" /\ tret.saw = "timeout") =>
        /\ tret.exc \in {"TimeoutError", "pexpect.TIMEOUT"}
        /\ IsActive(term)

\* C7: when the child's stream ends during execute_command, the call fails
\* and the session is dead from then on: is_active is false.
C7_EndOfStreamKillsSession ==
    (tcall.name = "execute_command" /\ tret.saw = "eof") =>
        /\ tret.exc # ""
        /\ ~IsActive(term)


\* C21: execute_command on an active session with q, quit or exit (after
\* trimming) closes the session and returns "Session closed" without waiting
\* for a prompt, in CrashSession and in DrgnSession alike; afterwards
\* is_active is false.
C21_QuitCloses ==
    (tcall.name = "execute_command" /\ tcall.active
     /\ Strip(tcall.command) \in QuitTokens) =>
        /\ tret.exc = ""
        /\ tret.val = <<"Session closed">>
        /\ tret.saw = ""
        /\ ~IsActive(term)

\* C22: close on a session that is not active (never started, closed, or with
\* an exited child) changes nothing and raises nothing; after every close
\* is_active is false, and a further close would change nothing.
C22_CloseIdempotent ==
    [][tcall'.name = "close" =>
          /\ tret'.exc = ""
          /\ ~IsActive(term) => (term' = term /\ tret'.wire = <<>>)
          /\ ~IsActive(term')
          /\ CloseSession(term') = term']_vars

\* a second close, on a session that ran a command and was closed
C22_Witness ==
    /\ tcall.name = "close"
    /\ ~tcall.active
    /\ term.process = "none"
    /\ term.history > 0

\* the lines the child reads when the texts of wire are sent with sendline
PhysicalLines(wire) ==
    Len(wire) + Cardinality({<<i, j>> \in (1..Len(wire)) \X (1..MaxBuf) :
                                j <= Len(wire[i]) /\ wire[i][j] = "\n"})

\* C24: every execute_command on an active DrgnSession sends one physical
\* line to the child: a text with a line break is not sent as it is.
C24_OneLinePerCall ==
    (tcall.name = "execute_command" /\ tcall.active /\ term.kind = "drgn") =>
        PhysicalLines(tret.wire) = 1

-----------------------------------------------------------------------------
(* Claims about close as a sequence of steps, checked under SpecClose.     *)

\* C23: every close that has sent quit to an active session returns, and when
\* it has returned the session has no process: the child that does not exit on
\* quit is ended by force.
C23_CloseReturns ==
    [](closing.pc = "sent" => <>(closing.pc = "no" /\ term.process = "none"))

\* ---- claims checked under SpecTruncate ----

\* C28: a text longer than MAX_LEN is cut to a result of at most MAX_LEN
\* characters plus those of the marker put into it, by the head and tail
\* strategy and by the tail strategy of log alike; a text of at most MAX_LEN
\* characters is returned as it is
C28_TruncateBound ==
    tcall.name = "_smart_truncate" =>
        IF RunLen(tcall.output) <= MAX_LEN
        THEN tret.exc = "" /\ tret.val = tcall.output
        ELSE /\ tret.exc = ""
             /\ \E i \in 1..Len(tret.val) :
                    /\ tret.val[i].c \in {"truncated", "log truncated"}
                    /\ RunLen(tret.val) <= MAX_LEN + tret.val[i].n

\* ---- more claims checked under SpecSession ----

\* C29: the text execute_command returns is made of what the child wrote in
\* answer to this command alone: it is a text the same call gives on a session
\* that holds nothing unread of an earlier command, whatever the child wrote
\* late for a command that timed out before
C29_NoLateOutput ==
    [][(tcall'.name = "execute_command" /\ tret'.exc = "")
          => \E a \in Answers({OutANl, BodyAnsi}) :
                 tret'.val = ExecuteCommand([term EXCEPT !.buf = <<>>],
                                            tcall'.command, a).val]_vars

\* C30: when start fails, for want of the first prompt or because the child
\* ended its stream, the session is not active afterwards and no child of
\* the failed start is left running
C30_FailedStartLeavesNothing ==
    (tcall.name = "start" /\ tret.exc # "") =>
        (~IsActive(term) /\ term.process # "running")

\* ---- claims checked under SpecEcho ----

\* an output line is the echo of an input line: equal to it once the prompt
\* or continuation prefix and the ANSI codes are taken off
IsEchoOf(line, input_line) ==
    LET current == Strip(line)
        bare == IF StartsWith(current, <<">", ">", ">", " ">>) THEN Drop(current, 4)
                ELSE IF StartsWith(current, <<".", ".", ".", " ">>) THEN Drop(current, 4)
                ELSE current
    IN  StripCsi(bare) = Strip(input_line)

\* the output lines from the first that is not the echo of the next input line
RECURSIVE FromFirstMismatch(_, _)
FromFirstMismatch(output_lines, input_lines) ==
    IF output_lines = <<>> \/ input_lines = <<>> THEN output_lines
    ELSE IF IsEchoOf(Head(output_lines), Head(input_lines))
    THEN FromFirstMismatch(Tail(output_lines), Tail(input_lines))
    ELSE output_lines

\* C31: the echo stripping takes off only a leading run of lines that echo
\* the input lines in order; the first line that is no echo and every line
\* after it make the result, joined and stripped
C31_OnlyLeadingEchoRemoved ==
    tcall.name = "strip_echo" =>
        tret.val = Strip(JoinLines(FromFirstMismatch(Splitlines(tcall.output),
                                                      Splitlines(Strip(tcall.command)))))

\* ---- claims checked under SpecSync ----

\* C33: every wait of the handshakes for a completion marker, the result of
\* the arithmetic or the token of the injection, is ended by text the code
\* run by the child printed and never by the echo of the line sent; start
\* returns after each marker and then a prompt were met, in this order
C33_MarkersNotInEcho ==
    /\ \A i \in 1..Len(sync.met) :
          sync.met[i].marker \in {"result", "token"} => sync.met[i].from = "output"
    /\ sync.pc = "started" =>
          \A i \in 1..Len(sync.met) :
              sync.met[i].marker = (IF i % 2 = 1 THEN IF i = 3 THEN "token" ELSE "result"
                                    ELSE "prompt")

\* ---- a further claim checked under SpecSession ----

\* C34: the history of a session has a fixed maximum: it never comes to hold
\* MaxHistory entries, one for each of the MaxHistory commands a session is
\* given here, because some command leaves it no longer than it was
C34_HistoryBounded == term.history < MaxHistory
-----------------------------------------------------------------------------
(* Claims about the UnifiedSession, checked under SpecUnified (routing and *)
(* engines) and SpecCache (the cache of execute_with_store).               *)

\* C8: no failure of a command is raised past execute_with_store: whatever
\* the engines do (not started, no prompt in time, stream ended), the call
\* returns a result.
C8_FailuresAreResults ==
    ucall.name = "execute_with_store" => uret.exc = ""

\* the start error recorded for the engine the command routes to
RoutedStartError(u, command) ==
    IF RouteOf(command) = "drgn" THEN u.drgn_start_error ELSE u.crash_start_error

\* C9: after a start in which one engine failed, a command routed to that
\* engine (by prefix or by heuristic) returns, without raising, an error text
\* that names the engine and carries the reason of the startup failure.
C9_FailedEngineIsNamed ==
    (ucall.name = "execute_command" /\ RoutedSession(us, ucall.command) = None) =>
        /\ uret.exc = ""
        /\ StartsWith(uret.val, ErrorPrefix)
        /\ Contains(uret.val, <<IF RouteOf(ucall.command) = "drgn" THEN "Drgn" ELSE "Crash">>)
        /\ Contains(uret.val, RoutedStartError(us, ucall.command)[1])

\* the lookup of the last execute_with_store was accepted: it was made (no
\* force, mode not disable), found an entry that is not error-flagged, and in
\* normal mode that entry had an output file
HitAccepted ==
    /\ ~ucall.force
    /\ cache_mode # "disable"
    /\ ucall.prior # None
    /\ ~ucall.prior[1].is_error
    /\ cache_mode = "normal" => ucall.prior[1].output_file # None

\* C10: execute_with_store returns the stored result flagged cached, and
\* sends nothing to any engine, exactly when its lookup is accepted; in every
\* other case a running engine receives the command.
C10_CacheRules ==
    ucall.name = "execute_with_store" =>
        IF HitAccepted
        THEN /\ uret.wire = <<>>
             /\ uret.exc = ""
             /\ uret.result = Some([ucall.prior[1] EXCEPT !.cached = TRUE])
        ELSE ucall.engine_active => uret.wire # <<>>

\* in normal mode a memory-only hit has just been executed again
C10_Witness ==
    /\ ucall.name = "execute_with_store"
    /\ cache_mode = "normal"
    /\ ~ucall.force
    /\ ucall.prior # None
    /\ ~ucall.prior[1].is_error
    /\ ucall.prior[1].output_file = None
    /\ uret.wire # <<>>
    /\ uret.result # None
    /\ ~uret.result[1].cached

\* C11: a live execution whose trimmed output starts with "Error:" returns
\* and stores an error-flagged result, and an execute_with_store that finds an
\* error-flagged result under its id executes live, whatever the cache mode
\* and the force flag: the result it returns is not flagged cached and a
\* running engine receives the command.
C11_ErrorsAreNotServed ==
    ucall.name = "execute_with_store" =>
        /\ (uret.live /\ uret.exc = "" /\ StartsWith(Strip(uret.val), ErrorPrefix)) =>
                /\ uret.result[1].is_error
                /\ \E cid \in DOMAIN us.store.commands :
                       us.store.commands[cid] = uret.result[1]
        /\ (ucall.prior # None /\ ucall.prior[1].is_error) =>
                /\ uret.live
                /\ uret.exc = "" => ~uret.result[1].cached
                /\ ucall.engine_active => uret.wire # <<>>

\* in force mode, an error-flagged result was found and the running engine
\* was asked again
C11_Witness ==
    /\ ucall.name = "execute_with_store"
    /\ cache_mode = "force"
    /\ ~ucall.force
    /\ ucall.prior # None
    /\ ucall.prior[1].is_error
    /\ ucall.engine_active
    /\ uret.wire # <<>>
    /\ uret.result # None

\* the first whitespace-delimited token of a text, empty if it has none
FirstToken(text) == IF Split(text) # <<>> THEN Split(text)[1] ELSE <<>>

\* the engine the routing priority gives a command text
C12_Engine(command) ==
    LET c == Strip(command)
    IN  IF StartsWith(c, PrefixDrgn) THEN "drgn"
        ELSE IF StartsWith(c, PrefixCrash) \/ StartsWith(c, PrefixPykdump) THEN "crash"
        ELSE IF FirstToken(c) \in CrashCmds THEN "crash"
        ELSE IF \E i \in 1..Len(c) : c[i] \in {"=", "(", ".", "["} THEN "drgn"
        ELSE IF FirstToken(c) \in DrgnNames THEN "drgn"
        ELSE "crash"

\* the line that engine is sent: the text without its prefix, or the epython
\* line of a pykdump command
C12_Line(command) ==
    LET c == Strip(command)
    IN  IF StartsWith(c, PrefixDrgn) THEN Strip(Drop(c, Len(PrefixDrgn)))
        ELSE IF StartsWith(c, PrefixCrash) THEN Strip(Drop(c, Len(PrefixCrash)))
        ELSE IF StartsWith(c, PrefixPykdump) THEN EpythonLine
        ELSE c

\* C12: with both engines running, execute_command sends one line, the
\* command without its prefix, to the engine the priority gives (prefix, then
\* crash vocabulary, then punctuation, then drgn names, then crash): a command
\* for crash adds one entry to the crash history, a command for drgn leaves
\* the crash session as it was.
C12_RoutingPriority ==
    [][(/\ ucall'.name = "execute_command"
        /\ us.crash # None /\ us.crash[1].process = "running"
        /\ us.drgn # None /\ us.drgn[1].process = "running") =>
            /\ uret'.wire = <<C12_Line(ucall'.command)>>
            /\ IF C12_Engine(ucall'.command) = "crash"
               THEN /\ us'.crash[1].history = us.crash[1].history + 1
                    /\ us'.drgn = us.drgn
               ELSE us'.crash = us.crash]_vars

\* a command that starts with a crash word and has a dot went to crash
C12_Witness ==
    /\ ucall.name = "execute_command"
    /\ ucall.command = CmdBtDot
    /\ ucall.engine_active
    /\ uret.wire = <<Strip(CmdBtDot)>>
    /\ us.drgn # None /\ us.drgn[1].process = "running"
    /\ us.crash[1].history >= 2

-----------------------------------------------------------------------------
(* Claims about command ids, checked under SpecIds.                        *)

\* C15: the ids made for one command under two contexts are equal when the
\* command's first word is not context-dependent or the contexts are equal;
\* for a context-dependent command under two different contexts they differ,
\* and both start with the engine and the command's first word.
C15_IdsFollowContext ==
    made # None =>
        LET m == made[1]
        IN  /\ \A i \in {1, 2} : m.ids[i].engine = m.engine
                                  /\ m.ids[i].prefix = FirstToken(m.command)
            /\ IF FirstToken(m.command) \in CONTEXT_DEPENDENT_COMMANDS
                  /\ contexts[1] # contexts[2]
               THEN m.ids[1] # m.ids[2]
               ELSE m.ids[1] = m.ids[2]

-----------------------------------------------------------------------------
(* Claims about the session context, checked under SpecContext.            *)

\* the words of the command execute_with_store was called with, after its prefix
SetParts(command) == Split(Strip(ParseCommand(command)[2]))

\* a command for the crash engine of the form set <key> <value>, key a context key
IsContextSet(command) ==
    /\ ParseCommand(command)[1] = "crash"
    /\ Len(SetParts(command)) >= 3
    /\ SetParts(command)[1] = CmdSet
    /\ SetParts(command)[2] \in CONTEXT_KEYS

\* C20: execute_with_store that executes a crash command set <key> <value>
\* with key in {pid, cpu, context} sets that key to that value and leaves the
\* other keys as they were; every other execute_with_store leaves the
\* context unchanged.
C20_ContextFrame ==
    [][ucall'.name = "execute_with_store" =>
          IF IsContextSet(ucall'.command) /\ uret'.live /\ uret'.exc = ""
          THEN LET key == SetParts(ucall'.command)[2]
               IN  /\ DOMAIN us'.context = DOMAIN us.context \cup {key}
                   /\ us'.context[key] = SetParts(ucall'.command)[3]
                   /\ \A k \in DOMAIN us.context \ {key} : us'.context[k] = us.context[k]
          ELSE us'.context = us.context]_vars

\* set cpu 2 was executed in a session whose context had pid already
C20_Witness ==
    /\ ucall.name = "execute_with_store"
    /\ ucall.command = CmdSetCpu
    /\ uret.live /\ uret.exc = ""
    /\ DOMAIN us.context = {KeyPid, KeyCpu}
    /\ us.context[KeyCpu] = <<"2">>


-----------------------------------------------------------------------------
(* Claims about set commands under the cache, checked under SpecSetCache.  *)

\* C35: after execute_with_store returns for a crash command set <key>
\* <value> with key in {pid, cpu, context}, the context maps key to value, in
\* every cache mode and whatever was executed before
C35_SetTakesEffect ==
    [][(/\ ucall'.name = "execute_with_store"
        /\ IsContextSet(ucall'.command)
        /\ uret'.exc = "") =>
            LET key == SetParts(ucall'.command)[2]
            IN  /\ key \in DOMAIN us'.context
                /\ us'.context[key] = SetParts(ucall'.command)[3]]_vars

-----------------------------------------------------------------------------
(* Claims about the cache and timeouts, checked under SpecTimeoutCache.    *)

\* C36: a result stored for a command whose wait for the prompt timed out is
\* not served from the cache: the execute_with_store of the same command that
\* follows such an execution executes the command again
C36_TimedOutNotCached ==
    [][(/\ ucall.name = "execute_with_store" /\ uret.live /\ uret.saw = "timeout"
        /\ ucall'.name = "execute_with_store" /\ ucall'.command = ucall.command
        /\ uret'.exc = "") => uret'.live]_vars

-----------------------------------------------------------------------------
(* Claims about the engine execute_with_store takes, checked under         *)
(* SpecDispatch.                                                           *)

\* C37: with both engines running, execute_with_store of a command without
\* a prefix executes it on the engine the routing priority of execute_command
\* gives that text, and the result carries that engine
C37_StoreRoutesAsExecute ==
    [][(/\ ucall'.name = "execute_with_store"
        /\ ParseCommand(ucall'.command)[2] = Strip(ucall'.command)
        /\ uret'.live /\ uret'.exc = ""
        /\ us.crash # None /\ us.crash[1].process = "running"
        /\ us.drgn # None /\ us.drgn[1].process = "running") =>
            /\ uret'.result[1].engine = C12_Engine(ucall'.command)
            /\ IF C12_Engine(ucall'.command) = "drgn"
               THEN us'.crash = us.crash
               ELSE us'.drgn = us.drgn]_vars
-----------------------------------------------------------------------------
(* Claims about the tool layer, checked under SpecTools.                   *)

C38_LastSessionIsPresent ==
    host.last = None \/ host.last[1] \in DOMAIN host.sessions

\* C39: when open_vmcore_session reports success, the id it returns is that
\* of a session of the session map with at least one engine alive, also when
\* the session of an earlier open is used again
C39_OpenedSessionIsActive ==
    (req.name = "open_vmcore_session" /\ resp.status = "success") =>
        /\ resp.sid \in DOMAIN host.sessions
        /\ UnifiedIsActive(host.sessions[resp.sid])

\* C40: between tool calls every session of the session map is registered in
\* the session manager with a reference count of at least 1, and the count is
\* the number of successful opens of the session less the closes that gave
\* one back
C40_CountsMatchOpens ==
    \A s \in DOMAIN host.sessions :
        /\ s \in DOMAIN host.mgr.sessions
        /\ host.mgr.sessions[s].ref_count >= 1
        /\ host.mgr.sessions[s].ref_count = opens[s]

\* a session opened twice and given back once is held once
C40_Witness ==
    /\ req.name = "close_vmcore_session"
    /\ resp.status = "success"
    /\ resp.sid \in DOMAIN host.sessions
    /\ host.mgr.sessions[resp.sid].ref_count = 1
    /\ opens[resp.sid] = 1
    /\ \E s \in DOMAIN host.sessions : s # resp.sid
====
